---- MODULE Spec2Model ----
(***************************************************************************)
(* Ground-control broker: spray orchestrator (services/sprayerService.js,  *)
(* routes/sprayerRoutes.js), status-string detection de-duplication        *)
(* (services/pixhawkServicePyMAVLink.js) and the serial Link to a vehicle  *)
(* (mavlink_handler.js, services/pixhawkService.js).                       *)
(***************************************************************************)
EXTENDS Integers, Sequences, FiniteSets, TLC

(***************************************************************************)
(* Bounds of the model.                                                    *)
(***************************************************************************)
\* longest spray queue explored
MaxQueue == 2
\* most successful sprays explored per vehicle (caps total_sprayed_ml)
MaxSprays == 3
\* largest value of TankStatus.refills_count explored
MaxRefills == 1
\* most continuation timers (setTimeout -> executeSprayMission) pending at once
MaxContinue == 1
\* most completion timers of the execute-next route pending at once
MaxCompletion == 1
\* most failed target completions explored per queue
MaxFailed == 1
\* the refill scenario: targets queued at once, and sprays explored
ScenarioTargets == 20
ScenarioSprays == 22
\* capacity of a vehicle's status-string ring (status_ring_size, 20 by default)
RingSize == 2
\* the size above which processedDetections is cleaned up (1000 in the code)
ProcessedCap == 2
\* how many of the oldest ids one clean-up deletes (100 in the code)
EvictCount == 1
\* detection ids explored
MaxDetId == 3
\* most crop_detection events counted per detection id
MaxPublished == 2
\* most packets a Link transmits (caps sequenceNumber)
MaxSeq == 257
\* most heartbeat intervals running at once on a Link
MaxIntervals == 2
\* longest operator waypoint list explored
MaxWaypoints == 3
\* most reconnectDrone calls in progress at once for one vehicle
MaxOverlap == 2
\* most telemetry responses on their way to the broker for one vehicle
MaxInFlight == 1
\* sockets that connect to the broker
MaxSockets == 3
\* most Pi records created by pi_register
MaxPiObjects == 3
\* most set-mode commands written to a Link
MaxModeRequests == 3

(***************************************************************************)
(* Program constants.                                                      *)
(***************************************************************************)
\* the sprayer configuration set by the constructor (this.config)
DefaultConfig ==
  [tank_capacity_ml |-> 1000,
   spray_volume_per_target_ml |-> 50,
   refill_threshold_ml |-> 100,
   auto_resume_after_refill |-> TRUE]

\* the "+ 50" safety margin of startSprayMission and executeSprayMission
safety_margin_ml == 50

\* vehicles with a sprayer; every sprayer map is keyed by drone id
SprayDrones == {1}
\* sizes of the detection lists handed to queueTargets
BatchSizes == {1, 2}
\* bodies of PUT /api/sprayer/config explored: a smaller tank
ConfigUpdates == {[tank_capacity_ml |-> 100]}
\* vehicles polled for telemetry
DetDrones == {1, 2}
\* detection ids a payload sends
DetIds == 1..MaxDetId

VARIABLES
  config,            \* sprayerService.config
  tankStatus,        \* sprayerService.tankStatus: drone id -> tank record
  sprayQueues,       \* sprayerService.sprayQueues: drone id -> sequence of targets
  activeMissions,    \* sprayerService.activeMissions: drone id -> mission record
  continueTimers,    \* pending setTimeout(executeSprayMission) per drone
  completionTimers,  \* pending setTimeout(onSprayComplete) of execute-next, FIFO
  emitted,           \* events emitted by the last operation, in order
  dispensedSinceRefill,  \* history: volume dispensed since the tank was last filled
  awaitingRefill,    \* history: refill_required emitted and not yet answered
  issueHistory,      \* history: what the current mission has issued so far
  response,          \* what the last operation returned to its caller
  statustext_log,    \* telemetry.statustext_log of each vehicle (the status ring)
  processedDetections,   \* the Set of processed detection ids, in insertion order
  missionData,       \* missionService.activeMissions: drone id -> mission id or 0
  ioEmitted,         \* events sent to the clients by the last telemetry poll
  published,         \* history: crop_detection events published per detection id
  typedEmitted,      \* history: typed events emitted for each record of a ring
  portOpen,          \* PixhawkConnection.port.isOpen
  connected,         \* PixhawkConnection.connected
  heartbeatInterval, \* PixhawkConnection.heartbeatInterval is set
  liveIntervals,     \* heartbeat intervals created and not cleared
  sequenceNumber,    \* PixhawkConnection.sequenceNumber
  lastSent,          \* the last packet handed to port.write
  linkEmitted,       \* events the connection emitted in the last operation
  linkResult,        \* the last operation on the Link and how it settled
  silentSeconds,     \* history: heartbeat periods since the last inbound heartbeat
  serviceUp,         \* the PyMAVLink service answers its HTTP interface
  pyLinks,           \* drone id -> the PyMAVLink service holds an open link to it
  connectedDrones,   \* pixhawkService.connectedDrones: drone id -> registry entry
  telemetryIntervals,    \* pixhawkService.telemetryIntervals: drones being polled
  regEmitted,        \* events the last registry operation sent, in order
  regResult,         \* the last registry operation and what its caller was told
  missionWaypoints,  \* MissionControl.missionData.waypoints (<<>>: no mission loaded)
  runWaypoints,      \* the waypoints constant of the running startAutomatedMission
  missionPc,         \* where the running startAutomatedMission is waiting
  requests,          \* requests the current run has sent to the vehicle service
  answers,           \* how the requests of the current run were answered
  uploaded,          \* the mission sequence the vehicle holds from the current run
  activeMission,     \* MissionControl.activeMission is set
  missionProgressInterval,  \* MissionControl.missionProgressInterval is set
  startDisabled,     \* the startMission button is disabled
  reported,          \* what the last run told the operator
  idleAtStart,       \* history: the current run began with no mission active
  telemetryData,     \* PixhawkConnection.telemetryData, nested objects included
  snapshot,          \* the object last handed out: its own top-level fields
  handedOut,         \* history: what that object read when it was handed out
  reconnects,        \* drone id -> the reconnectDrone calls in progress, by await
  inFlight,          \* drone id -> telemetry requests answered but not yet received
  announced,         \* history: the connection event last broadcast per drone
  sockets,           \* socket id -> its state and socket.pi_id
  piObjects,         \* the Pi records created by pi_register, in creation order
  connectedPis,      \* connectedPis: pi id -> position of its record, 0: no key
  removalTimers,     \* pending setTimeout callbacks of the disconnect handler
  piEmitted,         \* events the last socket handler broadcast
  requestedMode,     \* the mode name of the last drone_set_mode request
  sentMode           \* the mode number of the last DO_SET_MODE written, or NoMode

sprayVars == <<config, tankStatus, sprayQueues, activeMissions, continueTimers,
               completionTimers, emitted, dispensedSinceRefill,
               awaitingRefill, issueHistory, response>>

detVars == <<statustext_log, processedDetections, missionData, ioEmitted,
             published, typedEmitted>>

linkVars == <<portOpen, connected, heartbeatInterval, liveIntervals,
              sequenceNumber, lastSent, linkEmitted, linkResult, silentSeconds>>

regVars == <<serviceUp, pyLinks, connectedDrones, telemetryIntervals,
             regEmitted, regResult>>

missionVars == <<missionWaypoints, runWaypoints, missionPc, requests, answers,
                 uploaded, activeMission, missionProgressInterval,
                 startDisabled, reported, idleAtStart>>

telemetryVars == <<telemetryData, snapshot, handedOut>>

pollVars == <<reconnects, inFlight, announced>>

piVars == <<sockets, piObjects, connectedPis, removalTimers, piEmitted>>

modeVars == <<requestedMode, sentMode>>

vars == <<sprayVars, detVars, linkVars, regVars, missionVars, telemetryVars,
          pollVars, piVars, modeVars>>

(***************************************************************************)
(* Records.                                                                *)
(***************************************************************************)
\* tankStatus.get(droneId) before initializeSprayer: no entry
NoTank == [init |-> FALSE, current_volume_ml |-> 0, capacity_ml |-> 0,
           refills_count |-> 0, total_sprayed_ml |-> 0]

\* activeMissions.get(droneId) when the map has no entry
NoMission == [mission_id |-> -1, status |-> "none", current_target_index |-> 0,
              total_targets |-> 0, targets_completed |-> 0, targets_failed |-> 0,
              paused_for_refill |-> FALSE, refills_during_mission |-> 0,
              last_sprayed_index |-> -1]

\* one emitted event: ch = "svc" for the service's EventEmitter, "io" for the
\* operator channel
Ev(ch, name, d, index, remaining) ==
  [ch |-> ch, name |-> name, drone_id |-> d, target_index |-> index,
   targets_remaining |-> remaining]

\* sprayerService.emit(name): the listeners registered by setupSocketHandlers
\* run synchronously and forward the event to the operator channel as spray_<name>
ForwardedName(name) ==
  CASE name = "targets_queued"   -> "spray_targets_queued"
    [] name = "mission_started"  -> "spray_mission_started"
    [] name = "next_target"      -> "spray_next_target"
    [] name = "refill_required"  -> "spray_refill_required"
    [] name = "refill_complete"  -> "spray_refill_complete"
    [] name = "mission_complete" -> "spray_mission_complete"

ServiceEmit(ev, name, d, index, remaining) ==
  ev \o << Ev("svc", name, d, index, remaining),
           Ev("io", ForwardedName(name), d, index, remaining) >>

IoEmit(ev, name, d, index, remaining) ==
  Append(ev, Ev("io", name, d, index, remaining))

\* the issue history of a vehicle without a mission, or with a new one
NothingIssued == [last |-> -1, cleared |-> FALSE]

\* the positions of the events called name, for drone d, in the sequence ev
EventsNamed(ev, name, d) ==
  {i \in 1..Len(ev) : ev[i].name = name /\ ev[i].drone_id = d}

(***************************************************************************)
(* The service's methods, as functions of one drone's state                *)
(*   s = [tank, queue, mission, ev, cont, d, config]                       *)
(* ev: events emitted so far by the running handler; cont: continuation    *)
(* timers the handler has scheduled.                                       *)
(***************************************************************************)
DroneState(d) ==
  [tank |-> tankStatus[d], queue |-> sprayQueues[d], mission |-> activeMissions[d],
   ev |-> <<>>, cont |-> 0, d |-> d, config |-> config]

initializeSprayer(s) ==
  IF ~s.tank.init
    THEN [s EXCEPT !.tank = [init |-> TRUE,
                             current_volume_ml |-> s.config.tank_capacity_ml,
                             capacity_ml |-> s.config.tank_capacity_ml,
                             refills_count |-> 0,
                             total_sprayed_ml |-> 0],
                   !.queue = <<>>]
    ELSE s

\* detections.map(...): n targets stamped with the clock reading t
NewTargets(t, n) ==
  [i \in 1..n |-> [target_id |-> <<t, i - 1>>, status |-> "queued"]]

queueTargets(s0, t, n) ==
  LET s == initializeSprayer(s0)
      q == s.queue \o NewTargets(t, n)
  IN [s EXCEPT !.queue = q,
               !.ev = ServiceEmit(@, "targets_queued", s.d, n, Len(q))]

completeMission(s) ==
  IF s.mission.status = "none" THEN s
  ELSE [s EXCEPT
         !.ev = IoEmit(ServiceEmit(@, "mission_complete", s.d,
                                   s.mission.current_target_index, 0),
                       "spray_mission_complete", s.d,
                       s.mission.current_target_index, 0),
         !.mission = NoMission,
         !.queue = <<>>]

initiateRefillSequence(s) ==
  IF s.mission.status = "none" THEN s
  ELSE LET m == [s.mission EXCEPT !.status = "refilling",
                                  !.paused_for_refill = TRUE,
                                  !.refills_during_mission = @ + 1]
           rem == m.total_targets - m.current_target_index
       IN [s EXCEPT
            !.mission = m,
            !.ev = IoEmit(ServiceEmit(@, "refill_required", s.d,
                                      m.current_target_index, rem),
                          "spray_refill_required", s.d,
                          m.current_target_index, rem)]

requiredVolume(s) == s.config.spray_volume_per_target_ml + safety_margin_ml

\* as executeSprayMission, without the return after initiateRefillSequence
executeSprayMission_NoReturn(s) ==
  IF s.mission.status # "active" THEN s
  ELSE IF s.mission.current_target_index + 1 > Len(s.queue)
    THEN completeMission(s)
  ELSE LET s1 == IF s.tank.current_volume_ml < requiredVolume(s)
                   THEN initiateRefillSequence(s) ELSE s
           m == s1.mission
           rem == m.total_targets - m.current_target_index
       IN [s1 EXCEPT
            !.ev = IoEmit(ServiceEmit(@, "next_target", s.d,
                                      m.current_target_index, rem),
                          "spray_next_target", s.d, m.current_target_index, rem)]

executeSprayMission(s) ==
  IF s.mission.status # "active" THEN s
  ELSE IF s.mission.current_target_index + 1 > Len(s.queue)
    THEN completeMission(s)
  ELSE IF s.tank.current_volume_ml < requiredVolume(s)
    THEN initiateRefillSequence(s)
  ELSE LET m == s.mission
           rem == m.total_targets - m.current_target_index
       IN [s EXCEPT
            !.ev = IoEmit(ServiceEmit(@, "next_target", s.d,
                                      m.current_target_index, rem),
                          "spray_next_target", s.d, m.current_target_index, rem)]

\* as startSprayMission, without the check of the queue's length
startSprayMission_NoQueueCheck(s0, t) ==
  LET s == initializeSprayer(s0) IN
  IF s.tank.current_volume_ml < requiredVolume(s) THEN s
  ELSE LET m == [mission_id |-> t, status |-> "active",
                 current_target_index |-> 0, total_targets |-> Len(s.queue),
                 targets_completed |-> 0, targets_failed |-> 0,
                 paused_for_refill |-> FALSE, refills_during_mission |-> 0,
                 last_sprayed_index |-> -1]
       IN executeSprayMission(
            [s EXCEPT
              !.mission = m,
              !.ev = IoEmit(ServiceEmit(@, "mission_started", s.d, 0, Len(s.queue)),
                            "spray_mission_started", s.d, 0, Len(s.queue))])

startSprayMission(s0, t) ==
  LET s == initializeSprayer(s0) IN
  IF Len(s.queue) = 0 THEN s
  ELSE IF s.tank.current_volume_ml < requiredVolume(s) THEN s
  ELSE LET m == [mission_id |-> t, status |-> "active",
                 current_target_index |-> 0, total_targets |-> Len(s.queue),
                 targets_completed |-> 0, targets_failed |-> 0,
                 paused_for_refill |-> FALSE, refills_during_mission |-> 0,
                 last_sprayed_index |-> -1]
       IN executeSprayMission(
            [s EXCEPT
              !.mission = m,
              !.ev = IoEmit(ServiceEmit(@, "mission_started", s.d, 0, Len(s.queue)),
                            "spray_mission_started", s.d, 0, Len(s.queue))])

\* as onSprayComplete, with the tank also charged for a failed target
onSprayComplete_ChargesFailure(s, targetId, success) ==
  IF s.mission.status = "none" THEN s
  ELSE LET i == s.mission.current_target_index + 1 IN
    IF i <= Len(s.queue) /\ s.queue[i].target_id = targetId
      THEN [s EXCEPT
             !.queue[i].status = IF success THEN "completed" ELSE "failed",
             !.tank.current_volume_ml = @ - s.config.spray_volume_per_target_ml,
             !.tank.total_sprayed_ml = @ + s.config.spray_volume_per_target_ml,
             !.mission.targets_completed = IF success THEN @ + 1 ELSE @,
             !.mission.targets_failed = IF success THEN @ ELSE @ + 1,
             !.mission.last_sprayed_index =
                IF success THEN s.mission.current_target_index ELSE @,
             !.mission.current_target_index = @ + 1,
             !.cont = @ + 1]
      ELSE s

\* as onSprayComplete, without the comparison of the target id
onSprayComplete_IgnoresId(s, targetId, success) ==
  IF s.mission.status = "none" THEN s
  ELSE LET i == s.mission.current_target_index + 1 IN
    IF i <= Len(s.queue)
      THEN IF success
        THEN [s EXCEPT
               !.queue[i].status = "completed",
               !.tank.current_volume_ml = @ - s.config.spray_volume_per_target_ml,
               !.tank.total_sprayed_ml = @ + s.config.spray_volume_per_target_ml,
               !.mission.targets_completed = @ + 1,
               !.mission.last_sprayed_index = s.mission.current_target_index,
               !.mission.current_target_index = @ + 1,
               !.ev = IoEmit(@, "spray_target_complete", s.d,
                             s.mission.current_target_index,
                             s.mission.total_targets - s.mission.targets_completed - 1),
               !.cont = @ + 1]
        ELSE [s EXCEPT
               !.queue[i].status = "failed",
               !.mission.targets_failed = @ + 1,
               !.mission.current_target_index = @ + 1,
               !.cont = @ + 1]
      ELSE s

onSprayComplete(s, targetId, success) ==
  IF s.mission.status = "none" THEN s
  ELSE LET i == s.mission.current_target_index + 1 IN
    IF i <= Len(s.queue) /\ s.queue[i].target_id = targetId
      THEN IF success
        THEN [s EXCEPT
               !.queue[i].status = "completed",
               !.tank.current_volume_ml = @ - s.config.spray_volume_per_target_ml,
               !.tank.total_sprayed_ml = @ + s.config.spray_volume_per_target_ml,
               !.mission.targets_completed = @ + 1,
               !.mission.last_sprayed_index = s.mission.current_target_index,
               !.mission.current_target_index = @ + 1,
               !.ev = IoEmit(@, "spray_target_complete", s.d,
                             s.mission.current_target_index,
                             s.mission.total_targets - s.mission.targets_completed - 1),
               !.cont = @ + 1]
        ELSE [s EXCEPT
               !.queue[i].status = "failed",
               !.mission.targets_failed = @ + 1,
               !.mission.current_target_index = @ + 1,
               !.cont = @ + 1]
      ELSE s

\* as confirmRefill, topping the tank up by its capacity instead of setting it
confirmRefill_TopsUp(s) ==
  IF s.mission.status = "none" THEN s
  ELSE [s EXCEPT
         !.tank.current_volume_ml = @ + s.tank.capacity_ml,
         !.tank.refills_count = @ + 1,
         !.mission.status = "active",
         !.mission.paused_for_refill = FALSE,
         !.ev = IoEmit(ServiceEmit(@, "refill_complete", s.d,
                                   s.mission.current_target_index, 0),
                       "spray_refill_complete", s.d,
                       s.mission.current_target_index, 0),
         !.cont = IF s.config.auto_resume_after_refill THEN @ + 1 ELSE @]

\* as confirmRefill, resuming with the target after the one the mission paused at
confirmRefill_SkipsTarget(s) ==
  IF s.mission.status = "none" THEN s
  ELSE [s EXCEPT
         !.tank.current_volume_ml = s.tank.capacity_ml,
         !.tank.refills_count = @ + 1,
         !.mission.status = "active",
         !.mission.paused_for_refill = FALSE,
         !.mission.current_target_index = @ + 1,
         !.ev = IoEmit(ServiceEmit(@, "refill_complete", s.d,
                                   s.mission.current_target_index, 0),
                       "spray_refill_complete", s.d,
                       s.mission.current_target_index, 0),
         !.cont = IF s.config.auto_resume_after_refill THEN @ + 1 ELSE @]

confirmRefill(s) ==
  IF s.mission.status = "none" THEN s
  ELSE LET m == [s.mission EXCEPT !.status = "active", !.paused_for_refill = FALSE]
           rem == m.total_targets - m.current_target_index
       IN [s EXCEPT
            !.tank.current_volume_ml = s.tank.capacity_ml,
            !.tank.refills_count = @ + 1,
            !.mission = m,
            !.ev = IoEmit(ServiceEmit(@, "refill_complete", s.d,
                                      m.current_target_index, rem),
                          "spray_refill_complete", s.d, m.current_target_index, rem),
            !.cont = IF s.config.auto_resume_after_refill THEN @ + 1 ELSE @]

stopMission(s) ==
  IF s.mission.status = "none" THEN s
  ELSE [s EXCEPT
         !.ev = IoEmit(@, "spray_mission_stopped", s.d,
                       s.mission.current_target_index,
                       s.mission.total_targets - s.mission.current_target_index),
         !.mission = NoMission]

clearQueue(s) == [s EXCEPT !.queue = <<>>]

\* what the methods return: { success, error }
Result(op, d, success, error) ==
  [op |-> op, drone_id |-> d, success |-> success, error |-> error]

\* a timer callback returns nothing to anyone
NoResponse == Result("none", 0, TRUE, "none")

queueTargetsResult(s) == Result("queueTargets", s.d, TRUE, "none")

\* the returns of startSprayMission, in the order of its checks
startSprayMissionResult(s0) ==
  LET s == initializeSprayer(s0) IN
  IF Len(s.queue) = 0
    THEN Result("startSprayMission", s.d, FALSE, "No targets in spray queue")
  ELSE IF s.tank.current_volume_ml < requiredVolume(s)
    THEN Result("startSprayMission", s.d, FALSE, "Insufficient spray volume")
  ELSE Result("startSprayMission", s.d, TRUE, "none")

confirmRefillResult(s) ==
  IF s.mission.status = "none"
    THEN Result("confirmRefill", s.d, FALSE, "No active mission")
  ELSE Result("confirmRefill", s.d, TRUE, "none")

stopMissionResult(s) ==
  IF s.mission.status = "none"
    THEN Result("stopMission", s.d, FALSE, "No active mission")
  ELSE Result("stopMission", s.d, TRUE, "none")

clearQueueResult(s) == Result("clearQueue", s.d, TRUE, "none")

\* the answers of POST /:droneId/execute-next
executeNextResult(s) ==
  IF s.mission.status = "none"
    THEN Result("execute-next", s.d, FALSE, "No active spray mission")
  ELSE IF s.mission.current_target_index + 1 > Len(s.queue)
    THEN Result("execute-next", s.d, FALSE, "No more targets in queue")
  ELSE Result("execute-next", s.d, TRUE, "none")

\* { ...this.config, ...newConfig }
updateConfig(cfg, newConfig) ==
  [k \in DOMAIN cfg |-> IF k \in DOMAIN newConfig THEN newConfig[k] ELSE cfg[k]]

(***************************************************************************)
(* Operations.                                                             *)
(***************************************************************************)
\* the id of the target the mission is at, or a stale id when there is none
CurrentTargetId(d) ==
  LET i == activeMissions[d].current_target_index + 1 IN
    IF i <= Len(sprayQueues[d]) THEN sprayQueues[d][i].target_id ELSE <<-1, 0>>

\* target ids a completion signal may name: those in the queue, or a stale one
SignalIds(d) ==
  {sprayQueues[d][i].target_id : i \in 1..Len(sprayQueues[d])} \cup {<<-1, 0>>}

\* Date.now() stamps the ids a call creates.  Ids are only ever compared for
\* equality, so a stamp is modelled up to renaming: the least one not in use.
LeastNotIn(S) ==
  CHOOSE t \in 0..Cardinality(S) :
    t \notin S /\ \A u \in 0..(t - 1) : u \in S

\* the stamp of the target ids a queueTargets call creates: one that no target
\* in the queue and no pending completion timer carries
TargetStamp(d) ==
  LeastNotIn({sprayQueues[d][i].target_id[1] : i \in 1..Len(sprayQueues[d])}
               \cup {completionTimers[d][i][1] : i \in 1..Len(completionTimers[d])})

\* the stamp of the mission id a startSprayMission call creates
MissionStamp(d) == LeastNotIn({activeMissions[d].mission_id})

\* write one drone's state back after a handler has run.  The history variables
\* follow it: issueHistory holds the queue index of the mission's last
\* next_target and whether the queue was cleared under the mission;
\* dispensedSinceRefill is emptied by a fill and increased by what the
\* handler dispensed; awaitingRefill is set by refill_required and reset by
\* refill_complete
Commit(d, r) ==
  /\ tankStatus' = [tankStatus EXCEPT ![d] = r.tank]
  /\ sprayQueues' = [sprayQueues EXCEPT ![d] = r.queue]
  /\ activeMissions' = [activeMissions EXCEPT ![d] = r.mission]
  /\ continueTimers' = [continueTimers EXCEPT ![d] = @ + r.cont]
  /\ emitted' = r.ev
  /\ dispensedSinceRefill' =
       [dispensedSinceRefill EXCEPT
         ![d] = IF r.tank.refills_count # tankStatus[d].refills_count
                     \/ r.tank.init # tankStatus[d].init
                  THEN 0
                  ELSE @ + (r.tank.total_sprayed_ml - tankStatus[d].total_sprayed_ml)]
  /\ awaitingRefill' =
       [awaitingRefill EXCEPT
         ![d] = IF EventsNamed(r.ev, "refill_complete", d) # {} THEN FALSE
                ELSE IF EventsNamed(r.ev, "refill_required", d) # {} THEN TRUE
                ELSE @]
  /\ issueHistory' =
       [issueHistory EXCEPT
         ![d] = LET same == r.mission.mission_id = activeMissions[d].mission_id
                    base == IF same THEN @ ELSE NothingIssued
                    issues == EventsNamed(r.ev, "next_target", d)
                IN [last |-> IF issues = {} THEN base.last
                             ELSE r.ev[CHOOSE i \in issues : TRUE].target_index,
                    cleared |-> base.cleared
                                  \/ (same /\ Len(r.queue) < Len(sprayQueues[d]))]]

NumFailed(q) == Cardinality({i \in 1..Len(q) : q[i].status = "failed"})

\* PUT /api/sprayer/config
UpdateConfig(newConfig) ==
  /\ config' = updateConfig(config, newConfig)
  /\ emitted' = <<>>
  /\ response' = Result("updateConfig", 0, TRUE, "none")
  /\ UNCHANGED <<tankStatus, sprayQueues, activeMissions, continueTimers,
                 completionTimers, dispensedSinceRefill, awaitingRefill,
                 issueHistory>>

\* spray_queue_targets / POST /:droneId/queue
QueueTargets(d, n) ==
  /\ Commit(d, queueTargets(DroneState(d), TargetStamp(d), n))
  /\ response' = queueTargetsResult(DroneState(d))
  /\ UNCHANGED <<config, completionTimers>>

\* the HTTP status of a sprayer route for what the service returned:
\* res.json(result) for start, stop, refill-complete and the queue routes;
\* execute-next rejects with res.status(400) itself
HttpStatus(r) ==
  IF r.op = "execute-next" /\ ~r.success THEN 400 ELSE 200

\* spray_start_mission / POST /:droneId/start
StartSprayMission(d) ==
  /\ Commit(d, startSprayMission(DroneState(d), MissionStamp(d)))
  /\ response' = startSprayMissionResult(DroneState(d))
  /\ UNCHANGED <<config, completionTimers>>

\* spray_stop_mission / POST /:droneId/stop
StopMission(d) ==
  /\ Commit(d, stopMission(DroneState(d)))
  /\ response' = stopMissionResult(DroneState(d))
  /\ UNCHANGED <<config, completionTimers>>

\* spray_refill_complete / POST /:droneId/refill-complete
ConfirmRefill(d) ==
  /\ Commit(d, confirmRefill(DroneState(d)))
  /\ response' = confirmRefillResult(DroneState(d))
  /\ UNCHANGED <<config, completionTimers>>

\* spray_clear_queue / DELETE /:droneId/queue
ClearQueue(d) ==
  /\ Commit(d, clearQueue(DroneState(d)))
  /\ response' = clearQueueResult(DroneState(d))
  /\ UNCHANGED <<config, completionTimers>>

\* the target-completed signal: onSprayComplete(droneId, targetId, success, io)
TargetCompleted(d, targetId, success) ==
  /\ Commit(d, onSprayComplete(DroneState(d), targetId, success))
  /\ response' = NoResponse
  /\ UNCHANGED <<config, completionTimers>>

\* POST /:droneId/execute-next; ok: the spray command's response.data.success
ExecuteNext(d, ok) ==
  /\ LET m == activeMissions[d]
         i == m.current_target_index + 1
     IN completionTimers' =
          [completionTimers EXCEPT
            ![d] = IF m.status # "none" /\ i <= Len(sprayQueues[d]) /\ ok
                     THEN Append(@, sprayQueues[d][i].target_id) ELSE @]
  /\ emitted' = <<>>
  /\ response' = executeNextResult(DroneState(d))
  /\ UNCHANGED <<config, tankStatus, sprayQueues, activeMissions, continueTimers,
                 dispensedSinceRefill, awaitingRefill, issueHistory>>

\* the timer set by execute-next elapses: onSprayComplete(droneId, id, true, io)
CompletionTimerFires(d) ==
  /\ completionTimers[d] # <<>>
  /\ Commit(d, onSprayComplete(DroneState(d), Head(completionTimers[d]), TRUE))
  /\ completionTimers' = [completionTimers EXCEPT ![d] = Tail(@)]
  /\ response' = NoResponse
  /\ UNCHANGED config

\* a continuation timer elapses: executeSprayMission(droneId, io)
ContinueTimerFires(d) ==
  /\ continueTimers[d] > 0
  /\ Commit(d, [executeSprayMission(DroneState(d)) EXCEPT !.cont = -1])
  /\ response' = NoResponse
  /\ UNCHANGED <<config, completionTimers>>

SprayInit ==
  /\ config = DefaultConfig
  /\ tankStatus = [d \in SprayDrones |-> NoTank]
  /\ sprayQueues = [d \in SprayDrones |-> <<>>]
  /\ activeMissions = [d \in SprayDrones |-> NoMission]
  /\ continueTimers = [d \in SprayDrones |-> 0]
  /\ completionTimers = [d \in SprayDrones |-> <<>>]
  /\ emitted = <<>>
  /\ dispensedSinceRefill = [d \in SprayDrones |-> 0]
  /\ awaitingRefill = [d \in SprayDrones |-> FALSE]
  /\ issueHistory = [d \in SprayDrones |-> NothingIssued]
  /\ response = NoResponse

(***************************************************************************)
(* Bounds on the operations explored.                                      *)
(***************************************************************************)
\* a completion stays within the bounds on sprays, failures and pending timers
CompletionWithinBounds(d, success, maxSprays) ==
  /\ continueTimers[d] < MaxContinue
  /\ success => tankStatus[d].total_sprayed_ml
                  < maxSprays * config.spray_volume_per_target_ml
  /\ ~success => NumFailed(sprayQueues[d]) < MaxFailed

\* a refill confirmation stays within the bounds on refills and pending timers
RefillWithinBounds(d) ==
  activeMissions[d].status # "none" =>
    /\ tankStatus[d].refills_count < MaxRefills
    /\ continueTimers[d] < MaxContinue

\* every spray operation, under any interleaving, with short queues
SprayNext ==
  \/ \E c \in ConfigUpdates : UpdateConfig(c)
  \/ \E d \in SprayDrones :
       \/ \E n \in BatchSizes :
            Len(sprayQueues[d]) + n <= MaxQueue /\ QueueTargets(d, n)
       \/ StartSprayMission(d)
       \/ StopMission(d)
       \/ RefillWithinBounds(d) /\ ConfirmRefill(d)
       \/ ClearQueue(d)
       \/ \E id \in SignalIds(d), ok \in BOOLEAN :
            CompletionWithinBounds(d, ok, MaxSprays) /\ TargetCompleted(d, id, ok)
       \/ \E ok \in BOOLEAN :
            Len(completionTimers[d]) < MaxCompletion /\ ExecuteNext(d, ok)
       \/ CompletionWithinBounds(d, TRUE, MaxSprays) /\ CompletionTimerFires(d)
       \/ ContinueTimerFires(d)

\* the refill scenario: the default configuration, ScenarioTargets targets queued
\* at once (and at most one more later), a start only when no mission is active,
\* every completion successful, a refill confirmed only when one was asked for
ScenarioNext ==
  \E d \in SprayDrones :
    \/ sprayQueues[d] = <<>> /\ QueueTargets(d, ScenarioTargets)
    \/ Len(sprayQueues[d]) = ScenarioTargets /\ QueueTargets(d, 1)
    \/ activeMissions[d].status = "none" /\ StartSprayMission(d)
    \/ activeMissions[d].status = "refilling" /\ RefillWithinBounds(d)
         /\ ConfirmRefill(d)
    \/ CompletionWithinBounds(d, TRUE, ScenarioSprays)
         /\ TargetCompleted(d, CurrentTargetId(d), TRUE)
    \/ Len(completionTimers[d]) < MaxCompletion /\ ExecuteNext(d, TRUE)
    \/ CompletionWithinBounds(d, TRUE, ScenarioSprays) /\ CompletionTimerFires(d)
    \/ ContinueTimerFires(d)

(***************************************************************************)
(* Status strings: the telemetry poll of pixhawkServicePyMAVLink.js.       *)
(* A status text is the sequence of its "|"-separated fields.              *)
(***************************************************************************)
\* numeric fields a payload writes, and what parseFloat / parseInt make of them
NumericFields == {"23.295000", "85.310000", "0.91", "1732", "42", "41.5"}

parseFloat(field) == IF field \in NumericFields THEN field ELSE "NaN"

parseInt(field) == IF field \in NumericFields THEN field ELSE "NaN"

\* text.split('|')
split(text) == text

\* text.startsWith(tag + '|'): the tag is followed by a separator
startsWith(text, tag) == Len(text) >= 2 /\ text[1] = tag

\* the status texts explored
DetText(id) == <<"DET", id, "23.295000", "85.310000", "0.91", "1732">>

ShortDetText(id) == <<"DET", id, "23.295000">>

DstatText == <<"DSTAT", "42", "AUTO", "mission_20240315_142530">>

ImgText == <<"IMG", "a1", "/img/a1.jpg">>

StatText == <<"STAT", "41.5", "41.5", "41.5", "41.5">>

PlainText == <<"Mission: waypoint reached">>

\* a vehicle message without any of the keywords
QuietText == <<"Payload camera ready">>

\* a DET string whose latitude is not a number
BadDetText(id) == <<"DET", id, "north", "85.310000", "0.91", "1732">>

\* processedDetections.has(id)
has(processed, id) == \E i \in 1..Len(processed) : processed[i] = id

\* missionService.saveDetection for a detection without an image: null (FALSE
\* here) when the drone has no active mission, else the detection with the
\* mission's id
NoDetection == [detection_id |-> 0]

saveDetection(missions, droneId, detection) ==
  IF missions[droneId] = 0 THEN NoDetection
  ELSE [detection EXCEPT !.mission_id = missions[droneId]]

IoEvent(name, payload) == [name |-> name, payload |-> payload]

\* as CleanUp, deleting the newest ids instead of the oldest
CleanUp_EvictsNewest(processed) ==
  IF Len(processed) > ProcessedCap
  THEN SubSeq(processed, 1, Len(processed) - EvictCount)
  ELSE processed

\* the clean-up of processedDetections after an add
CleanUp(processed) ==
  IF Len(processed) > ProcessedCap
  THEN SubSeq(processed, EvictCount + 1, Len(processed))
  ELSE processed

\* one iteration of the loop of processStatustextForDetections;
\* st = [processed, events]
ProcessEntry(st, missions, droneId, text) ==
  LET parts == split(text) IN
  IF startsWith(text, "DET") THEN
    IF Len(parts) >= 6 THEN
      IF has(st.processed, parts[2]) THEN st
      ELSE
        LET detection == [detection_id |-> parts[2],
                          latitude |-> parseFloat(parts[3]),
                          longitude |-> parseFloat(parts[4]),
                          confidence |-> parseFloat(parts[5]),
                          detection_area |-> parseInt(parts[6]),
                          source |-> "mavlink",
                          mission_id |-> 0]
            detectionData == saveDetection(missions, droneId, detection)
        IN [processed |-> CleanUp(Append(st.processed, parts[2])),
            events |-> IF detectionData # NoDetection
                       THEN Append(st.events,
                                   IoEvent("crop_detection", detectionData))
                       ELSE st.events]
    ELSE st
  ELSE IF startsWith(text, "DSTAT") THEN
    IF Len(parts) >= 4
    THEN [st EXCEPT !.events =
            Append(@, IoEvent("detection_stats",
                              [drone_id |-> droneId,
                               total_detections |-> parseInt(parts[2]),
                               active_status |-> parts[3],
                               mission_id |-> parts[4]]))]
    ELSE st
  ELSE IF startsWith(text, "IMG") THEN
    IF Len(parts) >= 3
    THEN [st EXCEPT !.events =
            Append(@, IoEvent("image_captured",
                              [drone_id |-> droneId,
                               detection_id |-> parts[2],
                               image_path |-> parts[3]]))]
    ELSE st
  ELSE IF startsWith(text, "STAT") THEN
    IF Len(parts) >= 5
    THEN [st EXCEPT !.events =
            Append(@, IoEvent("pi_stats",
                              [drone_id |-> droneId,
                               cpu_percent |-> parseFloat(parts[2]),
                               memory_percent |-> parseFloat(parts[3]),
                               disk_percent |-> parseFloat(parts[4]),
                               temperature |-> parseFloat(parts[5])]))]
    ELSE st
  ELSE st

\* processStatustextForDetections: every entry of the log, oldest first
RECURSIVE processStatustextForDetections(_, _, _, _)
processStatustextForDetections(st, missions, droneId, statustextLog) ==
  IF statustextLog = <<>> THEN st
  ELSE processStatustextForDetections(
         ProcessEntry(st, missions, droneId, Head(statustextLog)),
         missions, droneId, Tail(statustextLog))

\* fields that contain one of the keywords of broadcastStatustextMessages
\* ('mission', 'waypoint', ...), whatever their case
KeywordFields == {"Mission: waypoint reached", "mission_20240315_142530"}

\* the filter of broadcastStatustextMessages for an entry of severity 6 (the
\* severity of the payload's strings): keywords.some(k => text.includes(k))
\* (the id of a DET string is a number here and holds no keyword)
IsImportant(text) ==
  \E i \in 1..Len(text) :
    /\ ~(startsWith(text, "DET") /\ i = 2)
    /\ text[i] \in KeywordFields

RECURSIVE SelectImportant(_)
SelectImportant(statustextLog) ==
  IF statustextLog = <<>> THEN <<>>
  ELSE IF IsImportant(Head(statustextLog))
       THEN <<Head(statustextLog)>> \o SelectImportant(Tail(statustextLog))
       ELSE SelectImportant(Tail(statustextLog))

\* broadcastStatustextMessages; tooSoon: less than 500 ms since the last one
broadcastStatustextMessages(events, droneId, statustextLog, tooSoon) ==
  LET importantMessages == SelectImportant(statustextLog) IN
  IF tooSoon \/ importantMessages = <<>> THEN events
  ELSE Append(events, IoEvent("statustext_messages",
                              [drone_id |-> droneId,
                               messages |-> importantMessages]))

RECURSIVE CountDetections(_, _)
CountDetections(events, id) ==
  IF events = <<>> THEN 0
  ELSE (IF /\ Head(events).name = "crop_detection"
           /\ Head(events).payload.detection_id = id
        THEN 1 ELSE 0) + CountDetections(Tail(events), id)

\* the events the loop emits for one entry whatever ids were processed: its
\* detection_stats, image_captured or pi_stats event (no mission is active in
\* the evaluation, so a DET entry contributes nothing here)
TypedEventsOf(d, text) ==
  LET st == ProcessEntry([processed |-> <<>>, events |-> <<>>],
                         [v \in DetDrones |-> 0], d, text)
  IN st.events

\* append to a ring of RingSize entries, dropping the oldest when it is full
RingAppend(ring, x) ==
  IF Len(ring) >= RingSize THEN Append(Tail(ring), x) ELSE Append(ring, x)

\* a status string reaches the vehicle's ring: appended, the oldest entry
\* dropped when the ring is full
StatustextArrives(d, text) ==
  /\ statustext_log' = [statustext_log EXCEPT ![d] = RingAppend(@, text)]
  /\ typedEmitted' = [typedEmitted EXCEPT ![d] = RingAppend(@, 0)]
  /\ UNCHANGED <<processedDetections, missionData, ioEmitted, published>>

\* one tick of the telemetry polling interval whose request succeeds
TelemetryPoll(d, tooSoon) ==
  LET log == statustext_log[d]
      st0 == [processed |-> processedDetections,
              events |-> <<IoEvent("drone_telemetry_update", [drone_id |-> d])>>]
      st1 == processStatustextForDetections(st0, missionData, d, log)
      events == broadcastStatustextMessages(st1.events, d, log, tooSoon)
  IN /\ processedDetections' = st1.processed
     /\ ioEmitted' = events
     /\ published' = [id \in DetIds |->
                        published[id] + CountDetections(events, id)]
     /\ typedEmitted' =
          [typedEmitted EXCEPT ![d] =
             [i \in 1..Len(log) |-> @[i] + Len(TypedEventsOf(d, log[i]))]]
     /\ UNCHANGED <<statustext_log, missionData>>

\* missionService.initializeMission: the drone's mission is replaced
InitializeMission(d) ==
  /\ missionData' = [missionData EXCEPT ![d] = 1]
  /\ UNCHANGED <<statustext_log, processedDetections, ioEmitted, published,
                 typedEmitted>>

\* missionService.stopMission
StopDetectionMission(d) ==
  /\ missionData[d] # 0
  /\ missionData' = [missionData EXCEPT ![d] = 0]
  /\ UNCHANGED <<statustext_log, processedDetections, ioEmitted, published,
                 typedEmitted>>

DetInit ==
  /\ statustext_log = [d \in DetDrones |-> <<>>]
  /\ processedDetections = <<>>
  /\ missionData = [d \in DetDrones |-> 0]
  /\ ioEmitted = <<>>
  /\ published = [id \in DetIds |-> 0]
  /\ typedEmitted = [d \in DetDrones |-> <<>>]

\* detection ids held by a ring or the processed set, or published before
KnownIds ==
  {id \in DetIds :
     \/ has(processedDetections, id)
     \/ published[id] > 0
     \/ \E d \in DetDrones : \E i \in 1..Len(statustext_log[d]) :
          startsWith(statustext_log[d][i], "DET") /\ statustext_log[d][i][2] = id}

\* the id of an arriving DET string: a payload numbers its detections and does
\* not send an id again, so the id is new (the least one, up to renaming)
ArrivingIds ==
  IF KnownIds = DetIds THEN {}
  ELSE {CHOOSE id \in DetIds \ KnownIds :
          \A other \in DetIds \ KnownIds : id <= other}

\* DET strings and vehicle messages arriving on several vehicles, polls and
\* mission starts and stops, under any interleaving
DetNext ==
  \E d \in DetDrones :
    \/ \E id \in ArrivingIds : StatustextArrives(d, DetText(id))
    \/ StatustextArrives(d, PlainText)
    \/ \E tooSoon \in BOOLEAN :
         (\A id \in DetIds : published[id] < MaxPublished)
           /\ TelemetryPoll(d, tooSoon)
    \/ InitializeMission(d)
    \/ StopDetectionMission(d)

\* the vehicle and the status strings of the parser's exploration: every tag,
\* well-formed and malformed, and vehicle messages with and without a keyword
ParseDrones == {1}

ParseTexts == {DstatText, ImgText, StatText, PlainText, QuietText}

ParseNext ==
  \E d \in ParseDrones :
    \/ \E id \in ArrivingIds :
         \E text \in {DetText(id), ShortDetText(id), BadDetText(id)} :
           StatustextArrives(d, text)
    \/ \E text \in ParseTexts : StatustextArrives(d, text)
    \/ \E tooSoon \in BOOLEAN :
         /\ \A id \in DetIds : published[id] < MaxPublished
         /\ \A i \in 1..Len(typedEmitted[d]) : typedEmitted[d][i] < MaxPublished
         /\ TelemetryPoll(d, tooSoon)
    \/ InitializeMission(d)
    \/ StopDetectionMission(d)

(***************************************************************************)
(* The Link: PixhawkConnection of mavlink_handler.js, and the forwarding of *)
(* its events by setupDroneEventHandlers (services/pixhawkService.js).     *)
(***************************************************************************)
\* the vehicle of the connection explored
LinkDrone == 1

\* inbound silence after which the vehicle counts as lost (heartbeat_timeout)
HeartbeatTimeout == 3

NoPacket == [kind |-> "none", seq |-> -1]

\* the operation last run on the connection, and what its promise settled with
LinkResult(op, result) == [op |-> op, result |-> result]

\* protocol.serialize(msg, systemId, componentId, this.sequenceNumber++)
Packet(kind, seq) == [kind |-> kind, seq |-> seq]

\* setupDroneEventHandlers: the connection events forwarded to the clients
ForwardedEvent(name) ==
  IF name = "connected" THEN "drone_connected"
  ELSE IF name = "disconnected" THEN "drone_disconnected"
  ELSE IF name = "telemetry" THEN "drone_telemetry_update"
  ELSE IF name = "heartbeat" THEN "drone_heartbeat"
  ELSE IF name = "error" THEN "drone_error"
  ELSE "none"

\* the events the operator clients receive for the last operation; every
\* event of the connection carries { drone_id: this.droneId }
ForwardedToClients ==
  [i \in 1..Len(linkEmitted) |->
     [event |-> ForwardedEvent(linkEmitted[i]), drone_id |-> LinkDrone]]

\* sendHeartbeat / sendCommand: !this.connected || !this.port || !this.port.isOpen
CanWrite == connected /\ portOpen

\* connect(): a new port is opened; opened: whether the open succeeds.
\* 'open': connected, emit connected, startHeartbeat; failure: emit disconnected
LinkConnect(opened) ==
  /\ portOpen' = opened
  /\ connected' = opened
  /\ heartbeatInterval' = (opened \/ heartbeatInterval)
  /\ liveIntervals' = IF opened THEN liveIntervals + 1 ELSE liveIntervals
  /\ linkEmitted' = IF opened THEN <<"connected">> ELSE <<"disconnected">>
  /\ silentSeconds' = 0
  /\ linkResult' = LinkResult("connect", "none")
  /\ UNCHANGED <<sequenceNumber, lastSent>>

\* reconnectDrone of the registry: disconnect() when connected (stopHeartbeat,
\* port.close() and its 'close' event), then connect()
ReconnectDrone(opened) ==
  LET closing == connected /\ portOpen
      stopped == connected /\ heartbeatInterval
      live == IF stopped THEN liveIntervals - 1 ELSE liveIntervals
  IN /\ portOpen' = opened
     /\ connected' = opened
     /\ heartbeatInterval' = (opened \/ (heartbeatInterval /\ ~stopped))
     /\ liveIntervals' = IF opened THEN live + 1 ELSE live
     /\ linkEmitted' = (IF closing THEN <<"disconnected">> ELSE <<>>)
                         \o (IF opened THEN <<"connected">> ELSE <<"disconnected">>)
     /\ silentSeconds' = 0
     /\ linkResult' = LinkResult("reconnectDrone", "none")
     /\ UNCHANGED <<sequenceNumber, lastSent>>

\* as PortClosed, with the connection opening the port again by itself
PortClosed_Reopens ==
  /\ portOpen
  /\ portOpen' = TRUE
  /\ connected' = TRUE
  /\ linkEmitted' = <<"disconnected", "connected">>
  /\ linkResult' = LinkResult("close", "none")
  /\ UNCHANGED <<heartbeatInterval, liveIntervals, sequenceNumber, lastSent,
                 silentSeconds>>

\* port 'close': the transport was closed from outside
PortClosed ==
  /\ portOpen
  /\ portOpen' = FALSE
  /\ connected' = FALSE
  /\ heartbeatInterval' = FALSE
  /\ liveIntervals' = IF heartbeatInterval THEN liveIntervals - 1 ELSE liveIntervals
  /\ linkEmitted' = <<"disconnected">>
  /\ linkResult' = LinkResult("close", "none")
  /\ UNCHANGED <<sequenceNumber, lastSent, silentSeconds>>

\* port 'error'; closes: whether the failure also closes the port (its 'close'
\* event follows at once)
PortError(closes) ==
  /\ portOpen
  /\ portOpen' = ~closes
  /\ connected' = FALSE
  /\ heartbeatInterval' = (heartbeatInterval /\ ~closes)
  /\ liveIntervals' = IF closes /\ heartbeatInterval THEN liveIntervals - 1
                      ELSE liveIntervals
  /\ linkEmitted' = <<"error", "disconnected">>
                      \o (IF closes THEN <<"disconnected">> ELSE <<>>)
  /\ linkResult' = LinkResult("error", "none")
  /\ UNCHANGED <<sequenceNumber, lastSent, silentSeconds>>

\* an inbound HEARTBEAT is decoded: handleHeartbeat
HeartbeatReceived ==
  /\ portOpen
  /\ linkEmitted' = <<"heartbeat", "telemetry">>
  /\ silentSeconds' = 0
  /\ linkResult' = LinkResult("heartbeat", "none")
  /\ UNCHANGED <<portOpen, connected, heartbeatInterval, liveIntervals,
                 sequenceNumber, lastSent>>

\* a heartbeat interval fires (every second): sendHeartbeat
HeartbeatTick ==
  /\ liveIntervals > 0
  /\ IF CanWrite
       THEN /\ lastSent' = Packet("heartbeat", sequenceNumber)
            /\ sequenceNumber' = sequenceNumber + 1
       ELSE UNCHANGED <<lastSent, sequenceNumber>>
  /\ silentSeconds' = IF silentSeconds < HeartbeatTimeout THEN silentSeconds + 1
                      ELSE silentSeconds
  /\ linkEmitted' = <<>>
  /\ linkResult' = LinkResult("tick", "none")
  /\ UNCHANGED <<portOpen, connected, heartbeatInterval, liveIntervals>>

\* as SendCommand, without the test of connected / port.isOpen
SendCommand_NoGuard ==
  /\ lastSent' = Packet("command", sequenceNumber)
  /\ sequenceNumber' = sequenceNumber + 1
  /\ linkResult' = LinkResult("sendCommand", "success")
  /\ linkEmitted' = <<>>
  /\ UNCHANGED <<portOpen, connected, heartbeatInterval, liveIntervals,
                 silentSeconds>>

\* sendCommand (arm, disarm, setMode, takeoff, land, goto)
SendCommand ==
  /\ IF CanWrite
       THEN /\ lastSent' = Packet("command", sequenceNumber)
            /\ sequenceNumber' = sequenceNumber + 1
            /\ linkResult' = LinkResult("sendCommand", "success")
       ELSE /\ linkResult' = LinkResult("sendCommand", "Not connected")
            /\ UNCHANGED <<lastSent, sequenceNumber>>
  /\ linkEmitted' = <<>>
  /\ UNCHANGED <<portOpen, connected, heartbeatInterval, liveIntervals,
                 silentSeconds>>

\* the connection after its constructor
LinkInit ==
  /\ portOpen = FALSE
  /\ connected = FALSE
  /\ heartbeatInterval = FALSE
  /\ liveIntervals = 0
  /\ sequenceNumber = 0
  /\ lastSent = NoPacket
  /\ linkEmitted = <<>>
  /\ linkResult = LinkResult("none", "none")
  /\ silentSeconds = 0

\* the connection is opened once by initializePixhawkConnections, then any
\* transport failure, reconnect, inbound heartbeat, tick and command
LinkNext ==
  \/ \E opened \in BOOLEAN :
       liveIntervals = 0 /\ ~portOpen /\ lastSent = NoPacket /\ linkEmitted = <<>>
         /\ LinkConnect(opened)
  \/ \E opened \in BOOLEAN :
       linkEmitted # <<>> /\ liveIntervals < MaxIntervals /\ ReconnectDrone(opened)
  \/ PortClosed
  \/ \E closes \in BOOLEAN : PortError(closes)
  \/ HeartbeatReceived
  \/ sequenceNumber < MaxSeq /\ HeartbeatTick
  \/ sequenceNumber < MaxSeq /\ SendCommand

(***************************************************************************)
(* The vehicle registry of services/pixhawkServicePyMAVLink.js, the socket *)
(* handlers that use it, and the legacy command route.  The PyMAVLink      *)
(* service itself is outside the broker: serviceUp / pyLinks are its state.*)
(***************************************************************************)
\* config.DRONE_CONFIGS, in the order of the array
DRONE_CONFIGS == <<1, 2>>

RegDrones == {DRONE_CONFIGS[i] : i \in 1..Len(DRONE_CONFIGS)}

\* an event sent to the clients with { drone_id }
RegEvent(event, d) == [event |-> event, drone_id |-> d]

\* one event per vehicle of S, in the order of DRONE_CONFIGS
EventsFor(S, name(_)) ==
  LET all == [i \in 1..Len(DRONE_CONFIGS) |->
                RegEvent(name(DRONE_CONFIGS[i]), DRONE_CONFIGS[i])]
      Chosen(e) == e.drone_id \in S
  IN SelectSeq(all, Chosen)

\* what an operation told its caller: success, the error message, whether a
\* request reached the vehicle's link, and the vehicle's acknowledgment
RegResult(op, d, success, error, sent, ack) ==
  [op |-> op, drone_id |-> d, success |-> success, error |-> error,
   sent |-> sent, ack |-> ack]

\* getDroneStatusList: one { drone_id, connected } per registry entry
getDroneStatusList ==
  [d \in {e \in RegDrones : connectedDrones[e] # "absent"} |->
     connectedDrones[d] = "connected"]

\* as SyncTargets, for every vehicle the service reports connected
SyncTargets_All ==
  {d \in RegDrones : serviceUp /\ pyLinks[d]}

\* syncConnectedDrones: drone.connected && !connectedDrones.has(drone.drone_id)
SyncTargets ==
  {d \in RegDrones : serviceUp /\ pyLinks[d] /\ connectedDrones[d] = "absent"}

ConnectedName(d) == "drone_connected"

\* initializePixhawkConnections: health check, sync, then one connect per
\* configured vehicle; opens[d]: whether the connect of d succeeds
initializePixhawkConnections(opens) ==
  /\ \A d \in RegDrones : connectedDrones[d] = "absent"
  /\ telemetryIntervals = {}
  /\ \A d \in RegDrones : opens[d] => serviceUp
  /\ \A d \in RegDrones : pyLinks[d] => opens[d]
  /\ IF ~serviceUp
       THEN /\ regEmitted' = <<>>
            /\ regResult' = RegResult("initializePixhawkConnections", 0, FALSE,
                                      "service not running", FALSE, "none")
            /\ UNCHANGED <<connectedDrones, telemetryIntervals, pyLinks>>
       ELSE LET Outcome(d) == IF opens[d] THEN "drone_connected"
                              ELSE "drone_disconnected"
            IN /\ connectedDrones' =
                    [d \in RegDrones |-> IF opens[d] THEN "connected"
                                         ELSE "disconnected"]
               /\ telemetryIntervals' =
                    SyncTargets \cup {d \in RegDrones : opens[d]}
               /\ pyLinks' = [d \in RegDrones |-> opens[d]]
               /\ regEmitted' = EventsFor(SyncTargets, ConnectedName)
                                  \o EventsFor(RegDrones, Outcome)
               /\ regResult' = RegResult("initializePixhawkConnections", 0, TRUE,
                                         "", TRUE, "none")
  /\ UNCHANGED serviceUp

\* reconnectDrone: disconnect, stop polling, connect again
reconnectDrone(d, opened) ==
  /\ opened => serviceUp
  /\ pyLinks' = [pyLinks EXCEPT ![d] = opened]
  /\ connectedDrones' =
       [connectedDrones EXCEPT ![d] = IF opened THEN "connected"
                                      ELSE "disconnected"]
  /\ telemetryIntervals' = IF opened THEN telemetryIntervals \cup {d}
                           ELSE telemetryIntervals \ {d}
  /\ regEmitted' = <<RegEvent(IF opened THEN "drone_connected"
                              ELSE "drone_disconnected", d)>>
  /\ regResult' = RegResult("reconnectDrone", d, opened,
                            IF opened THEN "" ELSE "Reconnection failed",
                            FALSE, "none")
  /\ UNCHANGED serviceUp

\* sync_drones -> syncConnectedDrones: adopt the vehicles the service reports
\* connected; sync_complete { success: true } whatever /drones answered
syncConnectedDrones ==
  /\ connectedDrones' =
       [d \in RegDrones |-> IF d \in SyncTargets THEN "connected"
                            ELSE connectedDrones[d]]
  /\ telemetryIntervals' = telemetryIntervals \cup SyncTargets
  /\ regEmitted' = EventsFor(SyncTargets, ConnectedName)
                     \o <<RegEvent("sync_complete", 0)>>
  /\ regResult' = RegResult("syncConnectedDrones", 0, TRUE, "", serviceUp, "none")
  /\ UNCHANGED <<serviceUp, pyLinks>>

\* the answers of the PyMAVLink service to a command request
CommandReplies == {"accepted", "rejected", "timeout", "error"}

\* drone_arm (and the other command events) -> sendCommand(droneId, command)
sendCommand(d, reply) ==
  /\ (~serviceUp \/ ~pyLinks[d]) => reply = "error"
  /\ IF connectedDrones[d] # "connected"
       THEN regResult' = RegResult("sendCommand", d, FALSE, "Drone not connected",
                                  FALSE, "none")
       ELSE regResult' =
              RegResult("sendCommand", d, reply = "accepted",
                        IF reply = "accepted" THEN "" ELSE reply,
                        serviceUp /\ pyLinks[d],
                        IF reply \in {"accepted", "rejected"} THEN reply
                        ELSE "none")
  /\ regEmitted' = <<RegEvent("drone_command_result", d)>>
  /\ UNCHANGED <<serviceUp, pyLinks, connectedDrones, telemetryIntervals>>

\* POST /api/drone/:id/command: answers without calling sendCommand
postCommand(d) ==
  /\ regResult' = IF connectedDrones[d] # "connected"
                    THEN RegResult("postCommand", d, FALSE, "Drone not connected",
                                   FALSE, "none")
                    ELSE RegResult("postCommand", d, TRUE, "", FALSE, "none")
  /\ regEmitted' = <<>>
  /\ UNCHANGED <<serviceUp, pyLinks, connectedDrones, telemetryIntervals>>

\* as ClientConnects, announcing every configured vehicle as connected
ClientConnects_AllConnected ==
  /\ regEmitted' =
       <<[event |-> "drones_status", drone_id |-> 0,
          drones |-> getDroneStatusList]>>
       \o EventsFor(RegDrones, ConnectedName)
  /\ regResult' = RegResult("connection", 0, TRUE, "", FALSE, "none")
  /\ UNCHANGED <<serviceUp, pyLinks, connectedDrones, telemetryIntervals>>

\* io.on('connection'): drones_status, then the status of every registry entry
ClientConnects ==
  LET Status(d) == IF connectedDrones[d] = "connected" THEN "drone_connected"
                   ELSE "drone_disconnected"
  IN /\ regEmitted' =
          <<[event |-> "drones_status", drone_id |-> 0,
             drones |-> getDroneStatusList]>>
          \o EventsFor(DOMAIN getDroneStatusList, Status)
     /\ regResult' = RegResult("connection", 0, TRUE, "", FALSE, "none")
     /\ UNCHANGED <<serviceUp, pyLinks, connectedDrones, telemetryIntervals>>

\* outside the broker: the service stops (its links go with it) or starts
ServiceChanges ==
  /\ serviceUp' = ~serviceUp
  /\ pyLinks' = IF serviceUp THEN [d \in RegDrones |-> FALSE] ELSE pyLinks
  /\ regEmitted' = <<>>
  /\ regResult' = RegResult("environment", 0, TRUE, "", FALSE, "none")
  /\ UNCHANGED <<connectedDrones, telemetryIntervals>>

\* outside the broker: a link of the service opens (a simulated or a plugged
\* vehicle) or drops
LinkChanges(d) ==
  /\ serviceUp
  /\ pyLinks' = [pyLinks EXCEPT ![d] = ~pyLinks[d]]
  /\ regEmitted' = <<>>
  /\ regResult' = RegResult("environment", 0, TRUE, "", FALSE, "none")
  /\ UNCHANGED <<serviceUp, connectedDrones, telemetryIntervals>>

\* module state of pixhawkServicePyMAVLink.js after require()
RegInit ==
  /\ serviceUp = TRUE
  /\ pyLinks = [d \in RegDrones |-> FALSE]
  /\ connectedDrones = [d \in RegDrones |-> "absent"]
  /\ telemetryIntervals = {}
  /\ regEmitted = <<>>
  /\ regResult = RegResult("none", 0, TRUE, "", FALSE, "none")

RegNext ==
  \/ \E opens \in [RegDrones -> BOOLEAN] : initializePixhawkConnections(opens)
  \/ \E d \in RegDrones, opened \in BOOLEAN : reconnectDrone(d, opened)
  \/ syncConnectedDrones
  \/ \E d \in RegDrones, reply \in CommandReplies : sendCommand(d, reply)
  \/ \E d \in RegDrones : postCommand(d)
  \/ ClientConnects
  \/ ServiceChanges
  \/ \E d \in RegDrones : LinkChanges(d)

(***************************************************************************)
(* The automated mission start of public/mission_control.js.  The vehicle  *)
(* service that expands and transfers the mission is outside src/.         *)
(***************************************************************************)
\* survey points an operator list is made of
WaypointIds == {1, 2}

\* the operator lists generateSurveyGrid can load
WaypointLists ==
  UNION {[1..n -> WaypointIds] : n \in 1..MaxWaypoints}

\* one item of the mission sequence on the wire
MissionItem(command, point, altitude) ==
  [command |-> command, point |-> point, altitude |-> altitude]

\* the expansion of an uploaded list: navigate to the first survey point at
\* transit altitude, take off there, the survey points, return to launch
ExpandMission(waypoints) ==
  <<MissionItem("NAV_WAYPOINT", waypoints[1], "transit"),
    MissionItem("NAV_TAKEOFF", waypoints[1], "survey")>>
  \o [i \in 1..Len(waypoints) |->
        MissionItem("NAV_WAYPOINT", waypoints[i], "survey")]
  \o <<MissionItem("NAV_RETURN_TO_LAUNCH", 0, "none")>>

\* as UploadRequest, with the list sent last point first
UploadRequest_Reversed(waypoints) ==
  [waypoints |-> [i \in 1..Len(waypoints) |->
                    waypoints[Len(waypoints) + 1 - i]]]

\* body of POST /drone/1/mission/upload: JSON.stringify({ waypoints })
UploadRequest(waypoints) == [waypoints |-> waypoints]

\* the steps of startAutomatedMission, in the order it sends them
MissionSteps == <<"upload", "arm", "start">>

\* generateSurveyGrid: the grid is stored and the start button enabled
GenerateGrid(waypoints) ==
  /\ missionWaypoints' = waypoints
  /\ startDisabled' = FALSE
  /\ UNCHANGED <<runWaypoints, missionPc, requests, answers, uploaded,
                 activeMission, missionProgressInterval, reported, idleAtStart>>

\* startMission button -> startAutomatedMission up to its first await:
\* proceed: the drone is shown connected and the operator confirms
StartAutomatedMission(proceed) ==
  /\ ~startDisabled
  /\ missionPc = "idle"
  /\ IF missionWaypoints = <<>> \/ ~proceed
       THEN /\ reported' = "not started"
            /\ UNCHANGED <<runWaypoints, missionPc, requests, answers, uploaded,
                           idleAtStart>>
       ELSE /\ runWaypoints' = missionWaypoints
            /\ missionPc' = "upload"
            /\ requests' = <<"upload">>
            /\ answers' = <<>>
            /\ uploaded' = <<>>
            /\ reported' = "starting"
            /\ idleAtStart' = (~activeMission /\ ~missionProgressInterval)
  /\ UNCHANGED <<missionWaypoints, activeMission, missionProgressInterval,
                 startDisabled>>

\* the upload is answered: ok, or a network error, a non-2xx answer or
\* success: false (each thrown into the catch block)
UploadAnswered(outcome) ==
  /\ missionPc = "upload"
  /\ answers' = Append(answers, outcome)
  /\ IF outcome = "ok"
       THEN /\ uploaded' = ExpandMission(UploadRequest(runWaypoints).waypoints)
            /\ requests' = Append(requests, "arm")
            /\ missionPc' = "arm"
            /\ UNCHANGED <<reported, startDisabled>>
       ELSE /\ reported' = "upload"
            /\ startDisabled' = FALSE
            /\ missionPc' = "idle"
            /\ UNCHANGED <<uploaded, requests>>
  /\ UNCHANGED <<missionWaypoints, runWaypoints, activeMission,
                 missionProgressInterval, idleAtStart>>

\* as ArmAnswered, going on to the mission start whatever the answer
ArmAnswered_IgnoresFailure(outcome) ==
  /\ missionPc = "arm"
  /\ answers' = Append(answers, outcome)
  /\ missionPc' = "settle"
  /\ UNCHANGED <<missionWaypoints, runWaypoints, requests, uploaded,
                 activeMission, missionProgressInterval, startDisabled,
                 reported, idleAtStart>>

\* the arm request is answered: armed, or a network error or success: false
ArmAnswered(outcome) ==
  /\ missionPc = "arm"
  /\ answers' = Append(answers, outcome)
  /\ IF outcome = "ok"
       THEN missionPc' = "settle" /\ UNCHANGED reported
       ELSE missionPc' = "idle" /\ reported' = "arm"
  /\ UNCHANGED <<missionWaypoints, runWaypoints, requests, uploaded,
                 activeMission, missionProgressInterval, startDisabled,
                 idleAtStart>>

\* await this.sleep(2000) is over: the mission start is requested
SettleElapsed ==
  /\ missionPc = "settle"
  /\ requests' = Append(requests, "start")
  /\ missionPc' = "start"
  /\ UNCHANGED <<missionWaypoints, runWaypoints, answers, uploaded,
                 activeMission, missionProgressInterval, startDisabled,
                 reported, idleAtStart>>

\* the mission start is answered: on success the mission is recorded and
\* startMissionProgressMonitoring runs
StartAnswered(outcome) ==
  /\ missionPc = "start"
  /\ answers' = Append(answers, outcome)
  /\ missionPc' = "idle"
  /\ IF outcome = "ok"
       THEN /\ reported' = "started"
            /\ startDisabled' = TRUE
            /\ missionProgressInterval' = TRUE
            /\ activeMission' = TRUE
       ELSE /\ reported' = "start"
            /\ UNCHANGED <<startDisabled, missionProgressInterval, activeMission>>
  /\ UNCHANGED <<missionWaypoints, runWaypoints, requests, uploaded, idleAtStart>>

\* the progress poll sees the last item reached: monitoring stops
MissionCompleted ==
  /\ missionProgressInterval
  /\ missionProgressInterval' = FALSE
  /\ UNCHANGED <<missionWaypoints, runWaypoints, missionPc, requests, answers,
                 uploaded, activeMission, startDisabled, reported, idleAtStart>>

\* stopAutomatedMission, answered with success
StopAutomatedMission ==
  /\ activeMission
  /\ missionProgressInterval' = FALSE
  /\ startDisabled' = FALSE
  /\ activeMission' = FALSE
  /\ UNCHANGED <<missionWaypoints, runWaypoints, missionPc, requests, answers,
                 uploaded, reported, idleAtStart>>

\* the constructor of MissionControl
MissionInit ==
  /\ missionWaypoints = <<>>
  /\ runWaypoints = <<>>
  /\ missionPc = "idle"
  /\ requests = <<>>
  /\ answers = <<>>
  /\ uploaded = <<>>
  /\ activeMission = FALSE
  /\ missionProgressInterval = FALSE
  /\ startDisabled = TRUE
  /\ reported = "none"
  /\ idleAtStart = TRUE

\* answers of the vehicle service to a request
StepOutcomes == {"ok", "network", "failure"}

MissionNext ==
  \/ \E waypoints \in WaypointLists : GenerateGrid(waypoints)
  \/ \E proceed \in BOOLEAN : StartAutomatedMission(proceed)
  \/ \E outcome \in StepOutcomes : UploadAnswered(outcome)
  \/ \E outcome \in StepOutcomes : ArmAnswered(outcome)
  \/ SettleElapsed
  \/ \E outcome \in StepOutcomes : StartAnswered(outcome)
  \/ MissionCompleted
  \/ StopAutomatedMission

(***************************************************************************)
(* Telemetry aggregation of mavlink_handler.js: the message handlers write *)
(* into this.telemetryData; emitTelemetry and getTelemetryData hand out    *)
(* { ...this.telemetryData }, which copies the top-level fields and shares  *)
(* the nested gps, battery and attitude objects.                           *)
(***************************************************************************)
\* raw latitudes and longitudes of decoded messages (int32, degrees * 1e7)
E7 == 10000000
RawLats == {0, 45 * E7, 91 * E7}
RawLons == {0, 181 * E7}
\* battery_remaining of decoded messages (int8; -1: not estimated)
RawRemaining == {-1, 50}
\* yaw of decoded ATTITUDE messages, in quarter turns (pi/2 rad)
RawYaws == {0, 1}
\* custom modes of decoded heartbeats
RawModes == {0, 8}

\* the modes table of parseFlightMode
FlightModes ==
  (0 :> "STABILIZE") @@ (1 :> "ACRO") @@ (2 :> "ALT_HOLD") @@ (3 :> "AUTO")
  @@ (4 :> "GUIDED") @@ (5 :> "LOITER") @@ (6 :> "RTL") @@ (7 :> "CIRCLE")
  @@ (9 :> "LAND") @@ (16 :> "POSHOLD") @@ (17 :> "BRAKE") @@ (18 :> "THROW")
  @@ (19 :> "AVOID_ADSB") @@ (20 :> "GUIDED_NOGPS") @@ (21 :> "SMART_RTL")
  @@ (22 :> "FLOWHOLD") @@ (23 :> "FOLLOW") @@ (24 :> "ZIGZAG")
  @@ (25 :> "SYSTEMID") @@ (26 :> "AUTOROTATE")

\* parseFlightMode: modes[customMode] || `MODE_${customMode}`
parseFlightMode(customMode) ==
  IF customMode \in DOMAIN FlightModes THEN FlightModes[customMode]
  ELSE "MODE_" \o ToString(customMode)

\* { ...this.telemetryData }: the scalar fields are copied, the nested
\* objects are the connection's own
ShallowCopy ==
  [flight_mode |-> telemetryData.flight_mode, armed |-> telemetryData.armed]

\* what the holder of the handed-out object reads from it now
ReadSnapshot ==
  [flight_mode |-> snapshot.flight_mode, armed |-> snapshot.armed,
   gps |-> telemetryData.gps, battery |-> telemetryData.battery,
   attitude |-> telemetryData.attitude]

\* emitTelemetry: the telemetry event, stored by the registry in droneStats
emitTelemetry ==
  /\ snapshot' = ShallowCopy'
  /\ handedOut' = telemetryData'

handleHeartbeat(customMode, armedFlag) ==
  /\ telemetryData' = [telemetryData EXCEPT
                         !.armed = armedFlag,
                         !.flight_mode = parseFlightMode(customMode)]
  /\ emitTelemetry

handleGlobalPosition(lat, lon) ==
  /\ telemetryData' = [telemetryData EXCEPT !.gps.lat = lat \div E7,
                                            !.gps.lon = lon \div E7]
  /\ emitTelemetry

\* handleGpsRaw: the position is taken only while gps.lat is still 0
handleGpsRaw(lat, lon, fixType) ==
  /\ telemetryData' =
       IF telemetryData.gps.lat = 0
         THEN [telemetryData EXCEPT !.gps.fix_type = fixType,
                                    !.gps.lat = lat \div E7,
                                    !.gps.lon = lon \div E7]
         ELSE [telemetryData EXCEPT !.gps.fix_type = fixType]
  /\ UNCHANGED <<snapshot, handedOut>>

\* handleAttitude: radians to degrees
handleAttitude(yaw) ==
  /\ telemetryData' = [telemetryData EXCEPT !.attitude.yaw = yaw * 90]
  /\ UNCHANGED <<snapshot, handedOut>>

\* handleSysStatus / handleBatteryStatus: remaining = message.batteryRemaining
handleSysStatus(remaining) ==
  /\ telemetryData' = [telemetryData EXCEPT !.battery.remaining = remaining]
  /\ UNCHANGED <<snapshot, handedOut>>

\* getTelemetryData: the read operation
getTelemetryData ==
  /\ snapshot' = ShallowCopy
  /\ handedOut' = telemetryData
  /\ UNCHANGED telemetryData

\* this.telemetryData of the constructor; nothing handed out yet
TelemetryInit ==
  /\ telemetryData =
       [gps |-> [lat |-> 0, lon |-> 0, fix_type |-> 0],
        battery |-> [remaining |-> 100],
        attitude |-> [yaw |-> 0],
        flight_mode |-> "UNKNOWN",
        armed |-> FALSE]
  /\ snapshot = ShallowCopy
  /\ handedOut = telemetryData

TelemetryNext ==
  \/ \E customMode \in RawModes, armedFlag \in BOOLEAN :
       handleHeartbeat(customMode, armedFlag)
  \/ \E lat \in RawLats, lon \in RawLons : handleGlobalPosition(lat, lon)
  \/ \E lat \in RawLats, lon \in RawLons, fixType \in {0, 3} :
       handleGpsRaw(lat, lon, fixType)
  \/ \E yaw \in RawYaws : handleAttitude(yaw)
  \/ \E remaining \in RawRemaining : handleSysStatus(remaining)
  \/ getTelemetryData

(***************************************************************************)
(* Reconnects and telemetry polling of pixhawkServicePyMAVLink.js, one     *)
(* step per await: a reconnect waits for the answer to its disconnect      *)
(* request and then for the answer to its connect request; a poll waits    *)
(* for the answer to its telemetry request.                                *)
(***************************************************************************)
NoReconnect == [disconnecting |-> 0, connecting |-> 0]

\* stopTelemetryPolling: clearInterval and delete the vehicle's entry
stopTelemetryPolling(intervals, d) == intervals \ {d}

\* startTelemetryPolling: clear the vehicle's interval, if any, and set a new one
startTelemetryPolling(intervals, d) == (intervals \ {d}) \cup {d}

\* the connection event broadcast last for each vehicle, after the events ev
Announce(ev) ==
  [d \in RegDrones |->
     LET S == {i \in 1..Len(ev) :
                 /\ ev[i].drone_id = d
                 /\ ev[i].event \in {"drone_connected", "drone_disconnected"}}
     IN IF S = {} THEN announced[d]
        ELSE ev[CHOOSE i \in S : \A j \in S : j <= i].event]

\* drone_reconnect -> reconnectDrone: the disconnect request is sent
ReconnectRequested(d) ==
  /\ reconnects[d].disconnecting + reconnects[d].connecting < MaxOverlap
  /\ reconnects' = [reconnects EXCEPT ![d].disconnecting = @ + 1]
  /\ regEmitted' = <<>>
  /\ regResult' = RegResult("drone_reconnect", d, TRUE, "", serviceUp, "none")
  /\ UNCHANGED <<serviceUp, pyLinks, connectedDrones, telemetryIntervals, inFlight>>

\* reconnectDrone after await callPyMAVLink(disconnect): stopTelemetryPolling,
\* the one second wait, and the connect request is sent
DisconnectAnswered(d) ==
  /\ reconnects[d].disconnecting > 0
  /\ reconnects' = [reconnects EXCEPT
                      ![d] = [disconnecting |-> @.disconnecting - 1,
                              connecting |-> @.connecting + 1]]
  /\ pyLinks' = [pyLinks EXCEPT ![d] = FALSE]
  /\ telemetryIntervals' = stopTelemetryPolling(telemetryIntervals, d)
  /\ regEmitted' = <<>>
  /\ regResult' = RegResult("disconnect", d, TRUE, "", serviceUp, "none")
  /\ UNCHANGED <<serviceUp, connectedDrones, inFlight>>

\* reconnectDrone after await callPyMAVLink(connect); opened: result.success
ConnectAnswered(d, opened) ==
  /\ reconnects[d].connecting > 0
  /\ opened => serviceUp
  /\ reconnects' = [reconnects EXCEPT ![d].connecting = @ - 1]
  /\ pyLinks' = [pyLinks EXCEPT ![d] = opened \/ @]
  /\ connectedDrones' =
       [connectedDrones EXCEPT ![d] = IF opened THEN "connected"
                                      ELSE "disconnected"]
  /\ telemetryIntervals' = IF opened
                             THEN startTelemetryPolling(telemetryIntervals, d)
                             ELSE telemetryIntervals
  /\ regEmitted' = <<RegEvent(IF opened THEN "drone_connected"
                              ELSE "drone_disconnected", d)>>
  /\ regResult' = RegResult("reconnectDrone", d, opened,
                            IF opened THEN "" ELSE "Reconnection failed",
                            FALSE, "none")
  /\ UNCHANGED <<serviceUp, inFlight>>

\* the polling interval of d fires and the service answers the telemetry
\* request with the vehicle's telemetry; the response is on its way
PollRequested(d) ==
  /\ d \in telemetryIntervals
  /\ serviceUp /\ pyLinks[d]
  /\ inFlight[d] < MaxInFlight
  /\ inFlight' = [inFlight EXCEPT ![d] = @ + 1]
  /\ regEmitted' = <<>>
  /\ regResult' = RegResult("poll", d, TRUE, "", TRUE, "none")
  /\ UNCHANGED <<serviceUp, pyLinks, connectedDrones, telemetryIntervals,
                 reconnects>>

\* the interval callback after await callPyMAVLink(telemetry), result.success
PollAnswered(d) ==
  /\ inFlight[d] > 0
  /\ inFlight' = [inFlight EXCEPT ![d] = @ - 1]
  /\ regEmitted' = <<RegEvent("drone_telemetry_update", d)>>
  /\ regResult' = RegResult("telemetry", d, TRUE, "", FALSE, "none")
  /\ UNCHANGED <<serviceUp, pyLinks, connectedDrones, telemetryIntervals,
                 reconnects>>

PollInit ==
  /\ reconnects = [d \in RegDrones |-> NoReconnect]
  /\ inFlight = [d \in RegDrones |-> 0]
  /\ announced = [d \in RegDrones |-> "none"]

\* startup initialization, sync, reconnect requests that may overlap, polls,
\* and the service and its links changing underneath
PollNext ==
  /\ \/ /\ \E opens \in [RegDrones -> BOOLEAN] : initializePixhawkConnections(opens)
        /\ UNCHANGED <<reconnects, inFlight>>
     \/ syncConnectedDrones /\ UNCHANGED <<reconnects, inFlight>>
     \/ ServiceChanges /\ UNCHANGED <<reconnects, inFlight>>
     \/ \E d \in RegDrones : LinkChanges(d) /\ UNCHANGED <<reconnects, inFlight>>
     \/ \E d \in RegDrones : ReconnectRequested(d)
     \/ \E d \in RegDrones : DisconnectAnswered(d)
     \/ \E d \in RegDrones, opened \in BOOLEAN : ConnectAnswered(d, opened)
     \/ \E d \in RegDrones : PollRequested(d)
     \/ \E d \in RegDrones : PollAnswered(d)
  /\ announced' = Announce(regEmitted')

(***************************************************************************)
(* The Pi registry of socket/socketHandlersPyMAVLink.js: connectedPis, the *)
(* records it maps to, and the removal timers of the disconnect handler.   *)
(***************************************************************************)
Sockets == 1..MaxSockets

PiIds == {1, 2}

PiEvent(event, p) == [event |-> event, pi_id |-> p]

\* io.on('connection'): a socket opens
SocketConnects(s) ==
  /\ sockets[s].state = "new"
  /\ sockets' = [sockets EXCEPT ![s].state = "open"]
  /\ piEmitted' = <<>>
  /\ UNCHANGED <<piObjects, connectedPis, removalTimers>>

\* socket.on('pi_register'): connectedPis.set(piId, { connected: true, ... })
pi_register(s, p) ==
  /\ sockets[s].state = "open"
  /\ Len(piObjects) < MaxPiObjects
  /\ piObjects' = Append(piObjects,
                         [id |-> p, socket_id |-> s, connected |-> TRUE])
  /\ connectedPis' = [connectedPis EXCEPT ![p] = Len(piObjects) + 1]
  /\ sockets' = [sockets EXCEPT ![s].pi_id = p]
  /\ piEmitted' = <<PiEvent("pi_connected", p)>>
  /\ UNCHANGED removalTimers

\* socket.on('disconnect'): the record the map holds for socket.pi_id is marked
\* disconnected and a timer is set that holds that record and socket.pi_id
disconnect(s) ==
  /\ sockets[s].state = "open"
  /\ sockets' = [sockets EXCEPT ![s].state = "closed"]
  /\ LET p == sockets[s].pi_id IN
       IF p # 0 /\ connectedPis[p] # 0
         THEN /\ piObjects' = [piObjects EXCEPT ![connectedPis[p]].connected = FALSE]
              /\ piEmitted' = <<PiEvent("pi_disconnected", p)>>
              /\ removalTimers' =
                   Append(removalTimers, [pi_id |-> p, pi |-> connectedPis[p]])
         ELSE /\ piEmitted' = <<>>
              /\ UNCHANGED <<piObjects, removalTimers>>
  /\ UNCHANGED connectedPis

\* the timer set by the disconnect handler elapses (one minute):
\* if (!pi.connected) connectedPis.delete(socket.pi_id)
RemovalTimerFires(k) ==
  /\ k \in 1..Len(removalTimers)
  /\ LET t == removalTimers[k] IN
       connectedPis' = IF ~piObjects[t.pi].connected
                         THEN [connectedPis EXCEPT ![t.pi_id] = 0]
                         ELSE connectedPis
  /\ removalTimers' = [i \in 1..(Len(removalTimers) - 1) |->
                         IF i < k THEN removalTimers[i] ELSE removalTimers[i + 1]]
  /\ piEmitted' = <<>>
  /\ UNCHANGED <<sockets, piObjects>>

PiInit ==
  /\ sockets = [s \in Sockets |-> [state |-> "new", pi_id |-> 0]]
  /\ piObjects = <<>>
  /\ connectedPis = [p \in PiIds |-> 0]
  /\ removalTimers = <<>>
  /\ piEmitted = <<>>

PiNext ==
  \/ \E s \in Sockets : SocketConnects(s)
  \/ \E s \in Sockets, p \in PiIds : pi_register(s, p)
  \/ \E s \in Sockets : disconnect(s)
  \/ \E k \in 1..MaxPiObjects : RemovalTimerFires(k)

(***************************************************************************)
(* Flight mode requests on the serial Link: setMode and getModeNumber of   *)
(* mavlink_handler.js behind the drone_set_mode handler.                   *)
(***************************************************************************)
\* mode names an operator request may carry
ModeNames ==
  {"STABILIZE", "GUIDED", "guided", "AUTO", "LOITER", "LAND", "SMART_RTL", "HOVER"}

\* the modes object of getModeNumber
ModeNumbers ==
  ("STABILIZE" :> 0) @@ ("ACRO" :> 1) @@ ("ALT_HOLD" :> 2) @@ ("AUTO" :> 3)
    @@ ("GUIDED" :> 4) @@ ("LOITER" :> 5) @@ ("RTL" :> 6) @@ ("CIRCLE" :> 7)
    @@ ("LAND" :> 9) @@ ("POSHOLD" :> 16) @@ ("BRAKE" :> 17)

\* String.prototype.toUpperCase on the names explored
toUpperCase(name) == IF name = "guided" THEN "GUIDED" ELSE name

\* modes[modeName.toUpperCase()] || 0
getModeNumber(modeName) ==
  IF toUpperCase(modeName) \in DOMAIN ModeNumbers
    THEN ModeNumbers[toUpperCase(modeName)] ELSE 0

\* drone_set_mode -> setMode(mode): sendCommand(176, 1, getModeNumber(mode), ...)
setMode(mode) ==
  /\ requestedMode' = mode
  /\ IF CanWrite
       THEN /\ lastSent' = Packet("command", sequenceNumber)
            /\ sequenceNumber' = sequenceNumber + 1
            /\ sentMode' = <<getModeNumber(mode)>>
            /\ linkResult' = LinkResult("setMode", "success")
       ELSE /\ linkResult' = LinkResult("setMode", "Not connected")
            /\ sentMode' = <<>>
            /\ UNCHANGED <<lastSent, sequenceNumber>>
  /\ linkEmitted' = <<>>
  /\ UNCHANGED <<portOpen, connected, heartbeatInterval, liveIntervals,
                 silentSeconds>>

ModeInit ==
  /\ requestedMode = "none"
  /\ sentMode = <<>>

\* the Link opens and closes, and mode requests arrive in any state
ModeNext ==
  \/ \E opened \in BOOLEAN :
       ~portOpen /\ liveIntervals < MaxIntervals /\ LinkConnect(opened)
         /\ UNCHANGED modeVars
  \/ PortClosed /\ UNCHANGED modeVars
  \/ \E mode \in ModeNames : sequenceNumber < MaxModeRequests /\ setMode(mode)

Init ==
  /\ SprayInit /\ DetInit /\ LinkInit /\ RegInit /\ MissionInit /\ TelemetryInit
  /\ PollInit /\ PiInit /\ ModeInit

Next ==
  SprayNext /\ UNCHANGED <<detVars, linkVars, regVars, missionVars,
                            telemetryVars, pollVars, piVars, modeVars>>

Spec == Init /\ [][Next]_vars

ScenarioSpec ==
  Init /\ [][ScenarioNext /\ UNCHANGED <<detVars, linkVars, regVars, missionVars,
                                         telemetryVars, pollVars, piVars, modeVars>>]_vars

DetSpec ==
  Init /\ [][DetNext /\ UNCHANGED <<sprayVars, linkVars, regVars, missionVars,
                                    telemetryVars, pollVars, piVars, modeVars>>]_vars

ParseSpec ==
  Init /\ [][ParseNext /\ UNCHANGED <<sprayVars, linkVars, regVars, missionVars,
                                      telemetryVars, pollVars, piVars, modeVars>>]_vars

LinkSpec ==
  Init /\ [][LinkNext /\ UNCHANGED <<sprayVars, detVars, regVars, missionVars,
                                     telemetryVars, pollVars, piVars, modeVars>>]_vars

RegSpec ==
  Init /\ [][RegNext /\ UNCHANGED <<sprayVars, detVars, linkVars, missionVars,
                                    telemetryVars, pollVars, piVars, modeVars>>]_vars

MissionSpec ==
  Init /\ [][MissionNext /\ UNCHANGED <<sprayVars, detVars, linkVars, regVars,
                                        telemetryVars, pollVars, piVars, modeVars>>]_vars

TelemetrySpec ==
  Init /\ [][TelemetryNext /\ UNCHANGED <<sprayVars, detVars, linkVars, regVars,
                                          missionVars, pollVars, piVars, modeVars>>]_vars

PollSpec ==
  Init /\ [][PollNext /\ UNCHANGED <<sprayVars, detVars, linkVars, missionVars,
                                     telemetryVars, piVars, modeVars>>]_vars

PiSpec ==
  Init /\ [][PiNext /\ UNCHANGED <<sprayVars, detVars, linkVars, regVars,
                                   missionVars, telemetryVars, pollVars,
                                   modeVars>>]_vars

ModeSpec ==
  Init /\ [][ModeNext /\ UNCHANGED <<sprayVars, detVars, regVars, missionVars,
                                     telemetryVars, pollVars, piVars>>]_vars

(***************************************************************************)
(* A spray mission whose signals are answered: targets are queued between  *)
(* missions, a start is issued when no mission runs, the mission is never  *)
(* stopped, every next_target is answered by a target-completed signal for *)
(* the target issued, every refill_required by a refill-complete, and the  *)
(* continuation timers elapse.  The queue may be cleared at any time.      *)
(***************************************************************************)
\* the mission's last next_target has not been answered yet
Outstanding(d) ==
  /\ activeMissions[d].status = "active"
  /\ issueHistory[d].last = activeMissions[d].current_target_index

\* the target-completed signal for the target issued last
AnswerTarget(d) ==
  /\ Outstanding(d)
  /\ \E ok \in BOOLEAN : TargetCompleted(d, CurrentTargetId(d), ok)

\* the refill-complete signal for a refill_required
AnswerRefill(d) ==
  /\ activeMissions[d].status = "refilling"
  /\ ConfirmRefill(d)

\* targets queued while no mission runs, within the bound on sprays
QueueBetweenMissions(d) ==
  /\ activeMissions[d].status = "none"
  /\ \E n \in BatchSizes :
       /\ Len(sprayQueues[d]) + n <= MaxQueue
       /\ tankStatus[d].total_sprayed_ml
            + (Len(sprayQueues[d]) + n) * config.spray_volume_per_target_ml
              <= MaxSprays * config.spray_volume_per_target_ml
       /\ QueueTargets(d, n)

AnsweredNext ==
  \/ \E c \in ConfigUpdates : UpdateConfig(c)
  \/ \E d \in SprayDrones :
       \/ QueueBetweenMissions(d)
       \/ activeMissions[d].status = "none" /\ StartSprayMission(d)
       \/ AnswerTarget(d)
       \/ AnswerRefill(d)
       \/ ContinueTimerFires(d)
       \/ ClearQueue(d)

\* the rest of the state stays as it is under the spray operations
RestUnchanged ==
  UNCHANGED <<detVars, linkVars, regVars, missionVars, telemetryVars,
              pollVars, piVars, modeVars>>

AnsweredFairness ==
  \A d \in SprayDrones :
    /\ WF_vars(AnswerTarget(d) /\ RestUnchanged)
    /\ WF_vars(AnswerRefill(d) /\ RestUnchanged)
    /\ WF_vars(ContinueTimerFires(d) /\ RestUnchanged)

AnsweredSpec ==
  /\ Init
  /\ [][AnsweredNext /\ RestUnchanged]_vars
  /\ AnsweredFairness

(***************************************************************************)
(* Properties.                                                             *)
(***************************************************************************)
Missing(d) == activeMissions[d].status = "none"

NextTargetEvents(ev, d) ==
  EventsNamed(ev, "next_target", d) \cup EventsNamed(ev, "spray_next_target", d)

\* one drone's state after the step, as the handlers see it
DroneStateAfter(d) ==
  [tank |-> tankStatus'[d], queue |-> sprayQueues'[d],
   mission |-> activeMissions'[d], ev |-> <<>>, cont |-> 0, d |-> d,
   config |-> config']

\* C1: after any sequence of spray operations, every initialised tank holds
\* 0 <= current volume <= capacity.
C1_TankWithinCapacity ==
  \A d \in SprayDrones :
    tankStatus[d].init =>
      /\ 0 <= tankStatus[d].current_volume_ml
      /\ tankStatus[d].current_volume_ml <= tankStatus[d].capacity_ml

\* C3: a start issued while the vehicle has a mission (active or refilling)
\* leaves that mission as it is: same id, status, target index and counters.
C3_StartKeepsActiveMission ==
  [][\A d \in SprayDrones :
       (~Missing(d) /\ StartSprayMission(d)) =>
          activeMissions'[d] = activeMissions[d]]_vars

\* C4: with capacity 1000, volume 50 and 20 queued targets all completing, the
\* tank holds 100 after 18 completions, the 19th target is not issued before the
\* tank has been refilled, and the first refill_required reports 2 targets left.
C4_RefillBeforeNineteenth ==
  \A d \in SprayDrones :
    LET m == activeMissions[d]
        t == tankStatus[d]
    IN (~Missing(d) /\ m.total_targets = ScenarioTargets
          /\ t.capacity_ml = 1000 /\ t.refills_count = 0) =>
         /\ m.targets_completed = 18 => t.current_volume_ml = 100
         /\ \A i \in NextTargetEvents(emitted, d) : emitted[i].target_index # 18
         /\ \A i \in EventsNamed(emitted, "spray_refill_required", d) :
              emitted[i].targets_remaining = 2

\* C5: from refill_required until refill_complete no next_target or
\* spray_next_target is emitted for the vehicle, whatever completions arrive and
\* timers elapse; nor does the handler that asks for the refill go on to issue one.
C5_NoTargetWhileRefilling ==
  [][\A d \in SprayDrones :
       /\ awaitingRefill[d] => NextTargetEvents(emitted', d) = {}
       /\ \A i \in EventsNamed(emitted', "refill_required", d) :
            \A j \in NextTargetEvents(emitted', d) : j < i]_vars

\* C5 witness: a refill is awaited, a target completion was processed meanwhile
\* (the tank fell below one spray volume) and the continuation timer it set has
\* elapsed without issuing anything.
C5_Witness ==
  \E d \in SprayDrones :
    /\ awaitingRefill[d]
    /\ activeMissions[d].status = "refilling"
    /\ tankStatus[d].current_volume_ml < config.spray_volume_per_target_ml
    /\ continueTimers[d] = 0
    /\ emitted = <<>>

\* C6: the tank's volume decreases only when a successful target completion is
\* processed, by exactly the configured volume; a failed completion, stop,
\* queueing targets and clearing the queue leave volume and dispensed total alone.
C6_TankChangesOnlyOnSuccess ==
  [][\A d \in SprayDrones :
       LET t == tankStatus[d]
           u == tankStatus'[d]
       IN /\ (t.init /\ u.current_volume_ml < t.current_volume_ml) =>
               /\ \/ \E id \in SignalIds(d) : TargetCompleted(d, id, TRUE)
                  \/ CompletionTimerFires(d)
               /\ u.current_volume_ml
                    = t.current_volume_ml - config.spray_volume_per_target_ml
               /\ activeMissions'[d].targets_completed
                    = activeMissions[d].targets_completed + 1
          /\ (t.init /\ (\/ \E id \in SignalIds(d) : TargetCompleted(d, id, FALSE)
                         \/ StopMission(d)
                         \/ ClearQueue(d)
                         \/ \E n \in BatchSizes : QueueTargets(d, n))) =>
               /\ u.current_volume_ml = t.current_volume_ml
               /\ u.total_sprayed_ml = t.total_sprayed_ml]_vars

\* C6 witness: a mission that has had a successful and a failed completion, the
\* tank charged for the successful one only.
C6_Witness ==
  \E d \in SprayDrones :
    /\ activeMissions[d].targets_failed = 1
    /\ activeMissions[d].targets_completed = 1
    /\ tankStatus[d].refills_count = 0
    /\ tankStatus[d].current_volume_ml
         = tankStatus[d].capacity_ml - config.spray_volume_per_target_ml

\* C7: for every vehicle, the tank's current volume plus the volume dispensed
\* since the last refill (or since initialisation) equals the capacity.
C7_TankAccounting ==
  \A d \in SprayDrones :
    tankStatus[d].init =>
      tankStatus[d].current_volume_ml + dispensedSinceRefill[d]
        = tankStatus[d].capacity_ml

\* C7 witness: a tank refilled after dispensing, and dispensing again since.
C7_Witness ==
  \E d \in SprayDrones :
    /\ tankStatus[d].refills_count >= 1
    /\ dispensedSinceRefill[d] > 0
    /\ tankStatus[d].total_sprayed_ml > dispensedSinceRefill[d]

\* C8: a target is counted completed and the mission advanced only by a step
\* that delivers an externally signalled target_completed, never by a timer of
\* the broker.
C8_CompletionOnlyBySignal ==
  [][\A d \in SprayDrones :
       (~Missing(d)
          /\ activeMissions'[d].mission_id = activeMissions[d].mission_id
          /\ activeMissions'[d].targets_completed
               > activeMissions[d].targets_completed) =>
         \E id \in SignalIds(d) : TargetCompleted(d, id, TRUE)]_vars

C10_StopClearsQueue ==
  \A d \in SprayDrones :
    EventsNamed(emitted, "spray_mission_stopped", d) # {} =>
      /\ Missing(d)
      /\ sprayQueues[d] = <<>>

\* C2: at most one crop_detection event is ever published for a detection id,
\* whatever status strings arrive on whatever vehicles, however often their
\* logs are polled, and whatever the seen-id set has evicted
C2_AtMostOneDetectionPerId == \A id \in DetIds : published[id] <= 1

\* C11: within a spray mission whose queue was not cleared, targets are issued
\* by next_target in queue order with none skipped: the first target issued is
\* the first of the queue, and each newly issued target is the one queued right
\* after the target issued before it.
C11_IssuedInQueueOrder ==
  [][\A d \in SprayDrones :
       (/\ issueHistory'[d].last # issueHistory[d].last
        /\ issueHistory'[d].last >= 0
        /\ ~issueHistory'[d].cleared)
       => issueHistory'[d].last =
            (IF activeMissions'[d].mission_id = activeMissions[d].mission_id
             THEN issueHistory[d].last ELSE -1) + 1]_vars

IsPollOf(d) ==
  /\ statustext_log' = statustext_log
  /\ missionData' = missionData
  /\ ioEmitted' # <<>>
  /\ ioEmitted'[1].payload.drone_id = d

\* the well-formed DET entries of vehicle d's log whose id was never seen
UnseenDetections(d) ==
  {i \in 1..Len(statustext_log[d]) :
     /\ startsWith(statustext_log[d][i], "DET")
     /\ Len(statustext_log[d][i]) >= 6
     /\ ~has(processedDetections, statustext_log[d][i][2])
     /\ published[statustext_log[d][i][2]] = 0}

\* the crop_detection events among ev that carry detection id
DetectionEvents(ev, id) ==
  {k \in 1..Len(ev) : /\ ev[k].name = "crop_detection"
                      /\ ev[k].payload.detection_id = id}

\* C13: whatever the broker's state, a well-formed DET string with a detection
\* id not seen before, read from a polled vehicle, publishes exactly one
\* crop_detection event with that id, its position, confidence and area.
C13_NewDetectionPublished ==
  [][\A d \in DetDrones :
       IsPollOf(d) =>
         \A i \in UnseenDetections(d) :
           LET text == statustext_log[d][i]
               evs == DetectionEvents(ioEmitted', text[2])
           IN /\ Cardinality(evs) = 1
              /\ \A k \in evs :
                   /\ ioEmitted'[k].payload.latitude = text[3]
                   /\ ioEmitted'[k].payload.longitude = text[4]
                   /\ ioEmitted'[k].payload.confidence = text[5]
                   /\ ioEmitted'[k].payload.detection_area = text[6]]_vars

\* C13 (vehicle id): every crop_detection event published by a poll carries
\* the id of the vehicle the string arrived on.
C13_DetectionCarriesVehicle ==
  \A k \in 1..Len(ioEmitted) :
    ioEmitted[k].name = "crop_detection"
      => "drone_id" \in DOMAIN ioEmitted[k].payload

\* C14: after a poll has processed its arrivals the processed-id set holds at
\* most its capacity; and adding an unprocessed id to the set, as the poll does
\* for each arrival, keeps the id just added and otherwise removes only the
\* oldest-inserted ids: what is left is the newest part of the insertion order.
C14_BoundedFifoSeenSet ==
  [][/\ Len(processedDetections') <= ProcessedCap
     /\ \A id \in DetIds :
          ~has(processedDetections, id) =>
            LET added == Append(processedDetections, id)
                kept == CleanUp(added)
            IN /\ Len(kept) <= ProcessedCap
               /\ kept # <<>>
               /\ kept[Len(kept)] = id
               /\ \E k \in 0..Len(added) :
                    kept = SubSeq(added, k + 1, Len(added))]_vars

\* the set is full and an id published earlier has been evicted from it
C14_Witness ==
  /\ Len(processedDetections) = ProcessedCap
  /\ \E id \in DetIds : published[id] > 0 /\ ~has(processedDetections, id)

\* C15: a status record yields at most one typed event (detection_stats,
\* image_captured or pi_stats) however many telemetry polls find it in the
\* vehicle's ring: a record already scanned is not emitted again.
C15_RecordEmittedOnce ==
  \A d \in DetDrones :
    \A i \in 1..Len(typedEmitted[d]) : typedEmitted[d][i] <= 1

\* the status string begins with one of the four known tags
IsTagged(text) ==
  \E tag \in {"DET", "DSTAT", "IMG", "STAT"} : startsWith(text, tag)

\* C16: a status string that begins with a known tag (DET, DSTAT, IMG, STAT)
\* is never delivered to the operator clients as a plain status message: no
\* statustext_messages event carries a tagged string.
C16_TaggedNeverPlain ==
  \A k \in 1..Len(ioEmitted) :
    ioEmitted[k].name = "statustext_messages" =>
      \A j \in 1..Len(ioEmitted[k].payload.messages) :
        ~IsTagged(ioEmitted[k].payload.messages[j])

\* the fields a tag requires, and those of them that are numbers
RequiredFields(text) ==
  IF startsWith(text, "DET") THEN 6
  ELSE IF startsWith(text, "DSTAT") THEN 4
  ELSE IF startsWith(text, "IMG") THEN 3
  ELSE 5

NumericPositions(text) ==
  IF startsWith(text, "DET") THEN 3..6
  ELSE IF startsWith(text, "DSTAT") THEN {2}
  ELSE IF startsWith(text, "IMG") THEN {}
  ELSE 2..5

\* a tagged record with too few fields or a non-numeric value in a numeric field
IsMalformed(text) ==
  /\ IsTagged(text)
  /\ \/ Len(text) < RequiredFields(text)
     \/ \E i \in NumericPositions(text) :
          i <= Len(text) /\ text[i] \notin NumericFields

\* C17: a malformed tagged record is dropped: while it is in a ring its
\* detection id is not in the processed-id set, it has produced no typed
\* event, and no crop_detection event carries a value that is not a number.
C17_MalformedDropped ==
  /\ \A d \in DetDrones :
       \A i \in 1..Len(statustext_log[d]) :
         IsMalformed(statustext_log[d][i]) =>
           /\ typedEmitted[d][i] = 0
           /\ startsWith(statustext_log[d][i], "DET")
                => ~has(processedDetections, statustext_log[d][i][2])
  /\ \A k \in 1..Len(ioEmitted) :
       ioEmitted[k].name = "crop_detection" =>
         /\ ioEmitted[k].payload.latitude # "NaN"
         /\ ioEmitted[k].payload.longitude # "NaN"
         /\ ioEmitted[k].payload.confidence # "NaN"
         /\ ioEmitted[k].payload.detection_area # "NaN"

\* C18: a Link whose transport stays open is connected only while inbound
\* heartbeats keep arriving: once three consecutive heartbeat periods have
\* passed without an inbound heartbeat the Link is disconnected.
C18_SilentLinkDisconnects ==
  (connected /\ portOpen /\ liveIntervals = 1) =>
    silentSeconds < HeartbeatTimeout

\* C19: every packet a Link transmits, heartbeat or command, carries a
\* sequence number within 0..255 that is the sequence number of the packet
\* transmitted before it plus one, modulo 256.
C19_SequenceWrapsAt256 ==
  [][lastSent' # lastSent =>
       /\ lastSent'.seq \in 0..255
       /\ sequenceNumber' \in 0..255
       /\ lastSent # NoPacket => lastSent'.seq = (lastSent.seq + 1) % 256]_vars

\* C20: when the transport fails (port error or close from outside) the Link
\* is disconnected and drone_disconnected is forwarded to the clients; and a
\* disconnected Link becomes connected again only by the registry's connect or
\* reconnect, never by itself.
C20_TransportFailureDisconnects ==
  [][/\ linkResult'.op \in {"close", "error"} =>
          /\ ~connected'
          /\ \E i \in 1..Len(ForwardedToClients') :
               ForwardedToClients'[i] =
                 [event |-> "drone_disconnected", drone_id |-> LinkDrone]
     /\ (~connected /\ connected') =>
          linkResult'.op \in {"connect", "reconnectDrone"}
     /\ (~portOpen /\ portOpen') =>
          linkResult'.op \in {"connect", "reconnectDrone"}]_vars

\* a Link that was connected and transmitting has just lost its transport:
\* it is disconnected and the clients are told so
C20_Witness ==
  /\ linkResult.op \in {"close", "error"}
  /\ sequenceNumber > 0
  /\ ~connected
  /\ \E i \in 1..Len(ForwardedToClients) :
       ForwardedToClients[i].event = "drone_disconnected"

\* C21: a command issued on a Link that is not open (not connected, or its
\* port closed) fails with the not-connected error, writes no packet and
\* leaves the sequence counter as it was.
C21_NotConnectedCommandFails ==
  [][(linkResult'.op = "sendCommand" /\ ~CanWrite) =>
       /\ linkResult'.result = "Not connected"
       /\ lastSent' = lastSent
       /\ sequenceNumber' = sequenceNumber]_vars

\* a Link that had been transmitting is no longer open and a command on it
\* has just been refused
C21_Witness ==
  /\ linkResult = LinkResult("sendCommand", "Not connected")
  /\ ~CanWrite
  /\ sequenceNumber > 0
  /\ lastSent.seq = sequenceNumber - 1

\* C22: a command is reported successful to the operator only when the
\* vehicle's acknowledgment with result accepted was received for it; a
\* rejected or missing acknowledgment never yields a success result.
C22_SuccessOnlyAfterAccepted ==
  (regResult.op \in {"sendCommand", "postCommand"} /\ regResult.success) =>
    regResult.ack = "accepted"

\* C23: a connecting client is sent drones_status with the current drone
\* list, followed by exactly one drone_connected or drone_disconnected per
\* registry entry, each matching the entry's connected flag.
C23_ClientGetsRegistryStatus ==
  regResult.op = "connection" =>
    /\ Len(regEmitted) = 1 + Cardinality(DOMAIN getDroneStatusList)
    /\ regEmitted[1].event = "drones_status"
    /\ regEmitted[1].drones = getDroneStatusList
    /\ \A d \in DOMAIN getDroneStatusList :
         \E i \in 2..Len(regEmitted) :
           /\ regEmitted[i] =
                RegEvent(IF connectedDrones[d] = "connected"
                         THEN "drone_connected" ELSE "drone_disconnected", d)
           /\ \A j \in 2..Len(regEmitted) :
                regEmitted[j].drone_id = d => j = i

\* a client has connected while the registry holds a connected and a
\* disconnected vehicle
C23_Witness ==
  /\ regResult.op = "connection"
  /\ \E d \in RegDrones : connectedDrones[d] = "connected"
  /\ \E d \in RegDrones : connectedDrones[d] = "disconnected"
  /\ Len(regEmitted) = 3

\* C24: once startup initialization has completed, every configured vehicle
\* has a registry entry, connected if its connect succeeded and disconnected
\* otherwise.
C24_EveryConfiguredVehiclePresent ==
  regResult.op = "initializePixhawkConnections" =>
    \A d \in RegDrones :
      connectedDrones[d] = IF pyLinks[d] THEN "connected" ELSE "disconnected"

\* C25: after a sync that reached the service, every vehicle whose link is
\* open is marked connected in the registry and is being polled, whatever its
\* registry state was before.
C25_SyncAdoptsOpenLinks ==
  (regResult.op = "syncConnectedDrones" /\ regResult.sent) =>
    \A d \in RegDrones :
      pyLinks[d] => (connectedDrones[d] = "connected" /\ d \in telemetryIntervals)

C28_SnapshotIsDeepCopy ==
  ReadSnapshot = handedOut

\* C29: after any sequence of decoded messages the Snapshot's latitude lies
\* in [-90, 90], its longitude in [-180, 180], its battery remaining percent
\* in [0, 100], and its flight mode is a defined mode name or MODE_<n>.
C29_SnapshotWithinRanges ==
  /\ telemetryData.gps.lat \in -90..90
  /\ telemetryData.gps.lon \in -180..180
  /\ telemetryData.battery.remaining \in 0..100
  /\ \/ telemetryData.flight_mode = "UNKNOWN"
     \/ \E n \in DOMAIN FlightModes : telemetryData.flight_mode = FlightModes[n]
     \/ \E n \in RawModes : telemetryData.flight_mode = "MODE_" \o ToString(n)

\* C30: a failed HTTP operation of the sprayer (start with an empty queue or
\* an insufficient tank, stop or refill-complete with no active mission) is
\* answered with status 400, never with a 2xx status.
C30_DomainFailureIs400 ==
  (response.op \in {"startSprayMission", "stopMission", "confirmRefill",
                    "execute-next"}
     /\ ~response.success) =>
    HttpStatus(response) = 400

\* C31: within one spray mission a next_target is emitted at most once for
\* each target index, whatever the interleaving of completion signals, refill
\* confirmations, stops and starts and the continuation timers: a step that
\* emits next_target for a mission never names the index that the mission's
\* previous next_target named.
C31_NextTargetOncePerIndex ==
  [][\A d \in SprayDrones :
       \A i \in EventsNamed(emitted', "next_target", d) :
         activeMissions'[d].mission_id = activeMissions[d].mission_id
           => emitted'[i].target_index # issueHistory[d].last]_vars

\* C32: in every reachable state of a spray mission targets_completed +
\* targets_failed = current_target_index, and a target-completed signal whose
\* target id is not that of the mission's current target changes no counter,
\* no target state and no tank value.
C32_EachTargetAccountedOnce ==
  /\ [](\A d \in SprayDrones :
          activeMissions[d].targets_completed + activeMissions[d].targets_failed
            = activeMissions[d].current_target_index)
  /\ [][\A d \in SprayDrones :
          \A id \in SignalIds(d), ok \in BOOLEAN :
            (id # CurrentTargetId(d) /\ TargetCompleted(d, id, ok))
              => UNCHANGED <<tankStatus, sprayQueues, activeMissions>>]_vars

\* a mission that has completed its first target, right after a completion
\* signal that named no current target and left everything as it was
C32_Witness ==
  \E d \in SprayDrones :
    /\ activeMissions[d].status = "active"
    /\ activeMissions[d].targets_completed = 1
    /\ activeMissions[d].current_target_index = 1
    /\ Len(sprayQueues[d]) = 2
    /\ continueTimers[d] = 0
    /\ emitted = <<>>
    /\ response = NoResponse

\* C33: in every reachable state of a spray mission current_target_index <=
\* total_targets, so the targets_remaining reported in its events (total_targets
\* minus current_target_index) is never negative, also when targets are queued
\* or the queue is cleared under the running mission.
C33_IndexWithinTotal ==
  \A d \in SprayDrones :
    /\ activeMissions[d].current_target_index <= activeMissions[d].total_targets
    /\ \A i \in 1..Len(emitted) :
         (/\ emitted[i].drone_id = d
          /\ emitted[i].name \in {"refill_required", "spray_refill_required",
                                  "refill_complete", "spray_refill_complete"})
           => emitted[i].targets_remaining >= 0

\* C34: if every next_target is answered by a target-completed signal for
\* that target and every refill_required by a refill-complete, and the mission
\* is not stopped, a started spray mission eventually completes:
\* mission_complete is emitted, the mission is removed and the queue is empty.
C34_StartedMissionCompletes ==
  \A d \in SprayDrones :
    (activeMissions[d].status = "active")
      ~> (/\ EventsNamed(emitted, "mission_complete", d) # {}
          /\ activeMissions[d].status = "none"
          /\ sprayQueues[d] = <<>>)

\* the events called name that an operation put on the operator channel for d
OperatorEvents(name, d) ==
  {i \in 1..Len(emitted) :
     emitted[i].ch = "io" /\ emitted[i].name = name /\ emitted[i].drone_id = d}

\* C35: each spray progress occurrence reaches the operator clients as exactly
\* one event of its name: an operation puts as many spray_next_target events
\* on the operator channel as it issued targets, and as many
\* spray_mission_complete events as it completed missions, never two for one.
C35_OneOperatorEventPerOccurrence ==
  \A d \in SprayDrones :
    /\ Cardinality(OperatorEvents("spray_next_target", d))
         = Cardinality(EventsNamed(emitted, "next_target", d))
    /\ Cardinality(OperatorEvents("spray_mission_complete", d))
         = Cardinality(EventsNamed(emitted, "mission_complete", d))

\* C38: after any sequence of connect, transport error, transport close,
\* disconnect and reconnect on a Link at most one heartbeat timer is active
\* for it, so at most one outbound heartbeat is sent per heartbeat interval.
C38_AtMostOneHeartbeatTimer ==
  liveIntervals <= 1

\* C36: events keep their causal order per vehicle: once drone_disconnected
\* has been broadcast for a vehicle, no drone_telemetry_update is broadcast
\* for it until a later drone_connected, also for polls that were in flight
\* when polling was stopped.
C36_NoTelemetryAfterDisconnected ==
  [][\A d \in RegDrones :
       (\E i \in 1..Len(regEmitted') :
          regEmitted'[i] = RegEvent("drone_telemetry_update", d))
         => announced[d] # "drone_disconnected"]_vars

\* C37: after any interleaving of startup initialization, sync and reconnect
\* requests, overlapping ones included, a telemetry polling timer runs for a
\* vehicle only if the registry marks the vehicle connected.
C37_PollingOnlyWhenConnected ==
  \A d \in RegDrones :
    (reconnects[d] = NoReconnect /\ d \in telemetryIntervals)
      => connectedDrones[d] = "connected"

\* the registry holds a record for the Pi and the record is marked connected
Registered(p) ==
  connectedPis[p] # 0 /\ piObjects[connectedPis[p]].connected

\* C39: a Pi whose socket disconnected is removed from the registry only if
\* it has not reconnected: a Pi that is registered and connected when a
\* removal delay elapses is still present and connected afterwards.
C39_ReconnectedPiStays ==
  [][\A p \in PiIds :
       (Registered(p) /\ Len(removalTimers') < Len(removalTimers))
         => /\ connectedPis'[p] # 0
            /\ piObjects'[connectedPis'[p]].connected]_vars

\* C40: a set_mode request naming a mode outside the fixed mode table fails
\* the operator request and writes no mode-change command to the vehicle; it
\* is never turned into a command for another mode.
C40_UnknownModeRejected ==
  [][(/\ linkResult'.op = "setMode"
      /\ toUpperCase(requestedMode') \notin DOMAIN ModeNumbers)
       => /\ linkResult'.result # "success"
          /\ lastSent' = lastSent
          /\ sentMode' = <<>>]_vars

====
